---------------------------- MODULE Spec2Model ----------------------------
(***************************************************************************)
(* Telemetry ingestion of the CAN LED dashboard firmware: the TWAI link    *)
(* life cycle (configureCan, monitorCanHealth, attemptCanRecovery), the    *)
(* bounded frame router (receiveAndProcessCan, processFrame) and the       *)
(* per-protocol decoders of src/src/can_handler.cpp, and the monolithic    *)
(* variant of the same duties in src/src/main.cpp.                         *)
(*                                                                         *)
(* Spec       : the link life cycle of the modular firmware.               *)
(* SpecMain   : the monolithic firmware (main.cpp).                        *)
(* SpecRouter : the frame path and the frame log of the modular firmware.  *)
(* SpecDecode : the decoders, one frame at a time, per protocol.           *)
(* SpecSerial : the serial bridge of the modular firmware.                 *)
(***************************************************************************)
EXTENDS Integers, Sequences, FiniteSets, TLC

VARIABLES
    pc,                    \* position of the single control flow
    now,                   \* millis(): device uptime, uint32_t, in clock units
    canBusStatus,          \* CanStatus
    canErrorMessage,       \* String
    lastCanMessageTime,    \* uint32_t
    lastCanHealthCheck,    \* uint32_t
    canRestartAttemptTime, \* uint32_t
    state,                 \* VehicleState
    frameLog,              \* FrameLogEntry[FRAME_LOG_SIZE], slots 0..FRAME_LOG_SIZE-1
    frameLogIndex,         \* next slot to write (frameLogHead in main.cpp)
    twai,                  \* what the program asked of the TWAI driver so far,
                           \* and when, on a clock that does not wrap
    call,                  \* the handler invocation that returned last
    CAN_PROTOCOL,          \* build-time protocol choice (config.h), fixed per run
    dataAge,               \* DataAgeTracker (main.cpp only)
    validationStats,       \* DataValidationStats (main.cpp only)
    serialBuffer,          \* serialBuffer[0..serialBufferIndex-1] (serial bridge)
    userConfig             \* UserConfig (web server)

vars == <<pc, now, canBusStatus, canErrorMessage, lastCanMessageTime,
          lastCanHealthCheck, canRestartAttemptTime, state, frameLog,
          frameLogIndex, twai, call, CAN_PROTOCOL, dataAge, validationStats,
          serialBuffer, userConfig>>

\* Globals that exist only in main.cpp, and only in can_handler.cpp.
mainGlobals == <<dataAge, validationStats>>
modularGlobals == <<lastCanHealthCheck, canRestartAttemptTime, CAN_PROTOCOL>>
\* Globals of the serial bridge of can_handler.cpp.
bridgeGlobals == <<serialBuffer>>
\* Globals of web_server.cpp.
webGlobals == <<userConfig>>

---------------------------------------------------------------------------
(* Bounds of the model *)

\* Number of TickMs steps the uptime clock advances.
MaxTicks == 4

\* Steps of half a poll interval the model follows around the wraparound.
MaxWrapTicks == 8

\* Largest maxMessages argument handed to receiveAndProcessCan.
MaxMessagesArg == 2
\* Slots of the frame log in the link model (config.h has 50, main.cpp 20):
\* the log is written, not read, by the link life cycle.
LogCapacity == 1

(* Program constants *)

CAN_HEALTH_CHECK_INTERVAL == 5000
CAN_RESTART_COOLDOWN == 10000
MAX_MESSAGES_PER_LOOP == 5
ERROR_PASSIVE_THRESHOLD == 128
ENGINE_RUNNING_RPM == 300

\* Uptime is kept in clock units of 4 ms, so that the uint32_t millisecond
\* counter, which wraps at 2^32 ms, wraps at 2^30 units.
Units(ms) == ms \div 4
UptimeModulus == 32768 * 32768
\* The modelled clock advances by one health-check interval, which is half
\* the recovery cooldown.
TickMs == CAN_HEALTH_CHECK_INTERVAL

\* Custom protocol (CAN_PROTOCOL = 0)
ID_THROTTLE == 256
ID_PEDALS == 257
ID_RPM == 258
ID_COOLANT == 259
ID_OIL_PRESSURE == 260
ID_FLAGS == 261
ID_IGNITION == 262
\* Link ECU Generic Dashboard (CAN_PROTOCOL = 1)
ID_RPM_TPS == 1520
ID_FUEL_IGN == 1521
ID_PRESSURES == 1522
ID_TEMPERATURES == 1523
ID_VOLTAGE_FLAGS == 1524
ID_GEAR_OIL == 1525
ID_VEHICLE_SPEED == 1526
ID_THROTTLE_SENSORS == 1527
\* Link ECU Generic Dashboard 2 (CAN_PROTOCOL = 2)
ID_ENGINE_DATA_1 == 8192
ID_ENGINE_DATA_2 == 8193
ID_ENGINE_DATA_3 == 8194
ID_ENGINE_DATA_4 == 8195
ID_VEHICLE_DATA_1 == 8196
ID_VEHICLE_DATA_2 == 8197
ID_FLAGS_WARNINGS == 8198
ID_ANALOG_INPUTS == 8199

---------------------------------------------------------------------------
(* Arithmetic helpers *)

\* constrain without its upper limit.
constrain_NoUpper(amt, low, high) == IF amt < low THEN low ELSE amt

\* Arduino's constrain(amt, low, high) macro.
constrain(amt, low, high) ==
    IF amt < low THEN low ELSE IF amt > high THEN high ELSE amt

\* msg.data[i], i in 0..7 (data is uint8_t[8]).
Byte(msg, i) == msg.data[i + 1]

\* The two bytes assembled high byte first.
U16_BigEndian(msg, i) == 256 * msg.data[i + 1] + msg.data[i + 2]

\* msg.data[i] | (msg.data[i+1] << 8) stored in a uint16_t.
U16(msg, i) == Byte(msg, i) + 256 * Byte(msg, i + 1)

\* data[i] | data[i+1]<<8 | data[i+2]<<16 | data[i+3]<<24 stored in a
\* uint32_t, as its high and low 16-bit words (the value is hi * 2^16 + lo).
U32(msg, i) == [hi |-> U16(msg, i + 2), lo |-> U16(msg, i)]

\* (uint16_t)v without the constrain: the low 16 bits.
ConstrainToU16_Truncates(v) == v.lo

\* (uint16_t)constrain(v, 0UL, 65535UL) of a uint32_t v.
ConstrainToU16(v) == IF v.hi # 0 THEN 65535 ELSE constrain(v.lo, 0, 65535)

\* The 16-bit pattern taken as unsigned.
ToInt16_Unsigned(v) == v

\* (int16_t) of a 16-bit pattern.
ToInt16(v) == IF v >= 32768 THEN v - 65536 ELSE v

Max(a, b) == IF a >= b THEN a ELSE b

\* (b & mask) != 0 for a one-bit mask.
BitSet(b, mask) == (b \div mask) % 2 = 1

\* now - last in uint32_t arithmetic (clock units).
\* The difference taken in a type wide enough never to wrap.
Elapsed_NoWrap(t, last) == t - last

Elapsed(t, last) == (t - last) % UptimeModulus

\* The conversion left out: the raw value as it is.
convertKpaTimes10ToBarTenth_NoRescale(raw) == raw

convertKpaTimes10ToBarTenth(raw) == raw \div 100

---------------------------------------------------------------------------
(* VehicleState, types.h *)

InitialVehicleState ==
    [ rpm |-> 0, throttlePercent |-> 0, coolant10x |-> 600, airTemp10x |-> 250,
      oilPressure10kPa |-> 30, fuelPressure10kPa |-> 300,
      batteryVoltage100x |-> 1400, ignitionTiming10x |-> 150,
      lambda100x |-> 100, brakePercent |-> 0, clutchPercent |-> 0,
      handbrakePulled |-> 0, vehicleSpeed10x |-> 0, gear |-> 0,
      revLimiter |-> FALSE, alsActive |-> FALSE, ignitionOn |-> FALSE,
      engineRunning |-> FALSE, launchControl |-> FALSE, flatShift |-> FALSE,
      rpmRedline |-> 6500 ]

\* DataAgeTracker and DataValidationStats, main.cpp.
InitialDataAge ==
    [lastThrottleUpdate |-> 0, lastRpmUpdate |-> 0, lastCoolantUpdate |-> 0,
     lastOilPressureUpdate |-> 0]

InitialValidationStats ==
    [invalidRpmCount |-> 0, invalidCoolantCount |-> 0,
     invalidOilPressureCount |-> 0, totalMessagesProcessed |-> 0]

\* UserConfig, types.h: the fields the configuration handler writes.
InitialUserConfig == [rpmRedline |-> 6500, ledBrightness |-> 128]

---------------------------------------------------------------------------
(* Decoders, can_handler.cpp *)

processFrameCustom(msg, s) ==
    LET dlc == msg.data_length_code
        id == msg.identifier
    IN
    IF id = ID_THROTTLE THEN
        IF dlc >= 1
        THEN [s EXCEPT !.throttlePercent = constrain(Byte(msg, 0), 0, 100)]
        ELSE s
    ELSE IF id = ID_PEDALS THEN
        LET s1 == IF dlc >= 1
                  THEN [s EXCEPT !.brakePercent = constrain(Byte(msg, 0), 0, 100)]
                  ELSE s
            s2 == IF dlc >= 2
                  THEN [s1 EXCEPT !.handbrakePulled = constrain(Byte(msg, 1), 0, 100)]
                  ELSE s1
        IN IF dlc >= 3
           THEN [s2 EXCEPT !.clutchPercent = constrain(Byte(msg, 2), 0, 100)]
           ELSE s2
    ELSE IF id = ID_RPM THEN
        IF dlc >= 2
        THEN [s EXCEPT !.rpm = U16(msg, 0),
                       !.engineRunning = (U16(msg, 0) > ENGINE_RUNNING_RPM)]
        ELSE s
    ELSE IF id = ID_COOLANT THEN
        IF dlc >= 2 THEN [s EXCEPT !.coolant10x = U16(msg, 0)] ELSE s
    ELSE IF id = ID_OIL_PRESSURE THEN
        IF dlc >= 2 THEN [s EXCEPT !.oilPressure10kPa = U16(msg, 0)] ELSE s
    ELSE IF id = ID_FLAGS THEN
        IF dlc >= 1
        THEN [s EXCEPT !.revLimiter = BitSet(Byte(msg, 0), 1),
                       !.alsActive = BitSet(Byte(msg, 0), 2)]
        ELSE s
    ELSE IF id = ID_IGNITION THEN
        IF dlc >= 1 THEN [s EXCEPT !.ignitionOn = (Byte(msg, 0) # 0)] ELSE s
    ELSE s

processFrameLinkGeneric(msg, s) ==
    LET dlc == msg.data_length_code
        id == msg.identifier
    IN
    IF id = ID_RPM_TPS THEN
        LET rpm16 == ConstrainToU16(U32(msg, 0))
            s1 == IF dlc >= 4
                  THEN [s EXCEPT !.rpm = rpm16,
                                 !.engineRunning = (rpm16 > ENGINE_RUNNING_RPM)]
                  ELSE s
        IN IF dlc >= 6
           THEN [s1 EXCEPT !.throttlePercent = constrain(U16(msg, 4) \div 10, 0, 100)]
           ELSE s1
    ELSE IF id = ID_FUEL_IGN THEN
        LET s1 == IF dlc >= 2
                  THEN [s EXCEPT !.fuelPressure10kPa =
                                     convertKpaTimes10ToBarTenth(U16(msg, 0))]
                  ELSE s
        IN IF dlc >= 4
           THEN [s1 EXCEPT !.ignitionTiming10x = ToInt16(U16(msg, 2))]
           ELSE s1
    ELSE IF id = ID_PRESSURES THEN
        IF dlc >= 6 THEN [s EXCEPT !.lambda100x = U16(msg, 4)] ELSE s
    ELSE IF id = ID_TEMPERATURES THEN
        LET s1 == IF dlc >= 2 THEN [s EXCEPT !.coolant10x = U16(msg, 0)] ELSE s
        IN IF dlc >= 4 THEN [s1 EXCEPT !.airTemp10x = U16(msg, 2)] ELSE s1
    ELSE IF id = ID_VOLTAGE_FLAGS THEN
        LET s1 == IF dlc >= 2
                  THEN [s EXCEPT !.batteryVoltage100x = U16(msg, 0)]
                  ELSE s
        IN IF dlc >= 3
           THEN [s1 EXCEPT !.revLimiter = BitSet(Byte(msg, 2), 1),
                           !.launchControl = BitSet(Byte(msg, 2), 2),
                           !.flatShift = BitSet(Byte(msg, 2), 4),
                           !.ignitionOn = BitSet(Byte(msg, 2), 128)]
           ELSE s1
    ELSE IF id = ID_GEAR_OIL THEN
        LET s1 == IF dlc >= 1 THEN [s EXCEPT !.gear = Byte(msg, 0)] ELSE s
        IN IF dlc >= 4
           THEN [s1 EXCEPT !.oilPressure10kPa =
                               convertKpaTimes10ToBarTenth(U16(msg, 2))]
           ELSE s1
    ELSE IF id = ID_VEHICLE_SPEED THEN
        IF dlc >= 2 THEN [s EXCEPT !.vehicleSpeed10x = U16(msg, 0)] ELSE s
    ELSE s

processFrameLinkGeneric2(msg, s) ==
    LET dlc == msg.data_length_code
        id == msg.identifier
    IN
    IF id = ID_ENGINE_DATA_1 THEN
        LET s1 == IF dlc >= 2
                  THEN [s EXCEPT !.rpm = U16(msg, 0),
                                 !.engineRunning = (U16(msg, 0) > ENGINE_RUNNING_RPM)]
                  ELSE s
            s2 == IF dlc >= 4
                  THEN [s1 EXCEPT !.throttlePercent =
                                      constrain(U16(msg, 2) \div 10, 0, 100)]
                  ELSE s1
            s3 == IF dlc >= 6 THEN [s2 EXCEPT !.coolant10x = U16(msg, 4)] ELSE s2
        IN IF dlc >= 8 THEN [s3 EXCEPT !.airTemp10x = U16(msg, 6)] ELSE s3
    ELSE IF id = ID_ENGINE_DATA_2 THEN
        LET s1 == IF dlc >= 4
                  THEN [s EXCEPT !.batteryVoltage100x = U16(msg, 2)]
                  ELSE s
            s2 == IF dlc >= 6
                  THEN [s1 EXCEPT !.fuelPressure10kPa = U16(msg, 4)]
                  ELSE s1
        IN IF dlc >= 8 THEN [s2 EXCEPT !.oilPressure10kPa = U16(msg, 6)] ELSE s2
    ELSE IF id = ID_ENGINE_DATA_3 THEN
        LET s1 == IF dlc >= 2 THEN [s EXCEPT !.lambda100x = U16(msg, 0)] ELSE s
        IN IF dlc >= 4
           THEN [s1 EXCEPT !.ignitionTiming10x = ToInt16(U16(msg, 2))]
           ELSE s1
    ELSE IF id = ID_VEHICLE_DATA_1 THEN
        LET s1 == IF dlc >= 2 THEN [s EXCEPT !.vehicleSpeed10x = U16(msg, 0)] ELSE s
            s2 == IF dlc >= 3 THEN [s1 EXCEPT !.gear = Byte(msg, 2)] ELSE s1
        IN IF dlc >= 4
           THEN [s2 EXCEPT !.launchControl = BitSet(Byte(msg, 3), 1),
                           !.flatShift = BitSet(Byte(msg, 3), 2)]
           ELSE s2
    ELSE IF id = ID_FLAGS_WARNINGS THEN
        IF dlc >= 1
        THEN [s EXCEPT !.revLimiter = BitSet(Byte(msg, 0), 1),
                       !.ignitionOn = BitSet(Byte(msg, 0), 128)]
        ELSE s
    ELSE s

---------------------------------------------------------------------------
(* Frames and the frame log *)

ZeroData == <<0, 0, 0, 0, 0, 0, 0, 0>>

ZeroMessage == [identifier |-> 0, data_length_code |-> 0, data |-> ZeroData]

\* FrameLogEntry frameLog[FRAME_LOG_SIZE]: a zero-initialised global of n
\* slots, indexed from 0.
EmptyFrameLog(n) ==
    [i \in 0..(n - 1) |-> [timestamp |-> 0, message |-> ZeroMessage]]

\* FRAME_LOG_SIZE, the number of slots of the array.
FRAME_LOG_SIZE(log) == Cardinality(DOMAIN log)

\* The frame the transport delivers in the link model: the Link rpm/tps
\* frame CAN:5F0:8:E803000064000000 (1000 rpm, 10.0 % throttle). The Link
\* table decodes it; the Custom and Link2 tables do not know its identifier.
RouterFrames ==
    { [identifier |-> ID_RPM_TPS, data_length_code |-> 8,
       data |-> <<232, 3, 0, 0, 100, 0, 0, 0>>] }

\* ESP_ERR_TIMEOUT (or any other error) of twai_receive.
NoFrame == [identifier |-> -1, data_length_code |-> 0, data |-> ZeroData]

\* What the transport answers to the successive twai_receive calls of one
\* router invocation: at most 1 + maxMessages receives are made, the first
\* one blocking, and none is made after a non-blocking one has failed.
RxOutcomes(maxMessages) ==
    { rx \in [1..(maxMessages + 1) -> RouterFrames \cup {NoFrame}] :
        \A i \in 2..(maxMessages + 1) :
            rx[i] = NoFrame => \A j \in i..(maxMessages + 1) : rx[j] = NoFrame }

\* A build that runs the handlers of all three protocols on every frame.
Decode_AnyTable(protocol, msg, s) ==
    processFrameLinkGeneric2(msg,
        processFrameLinkGeneric(msg, processFrameCustom(msg, s)))

\* Handlers that take every frame for a full one, without length gates.
Decode_FullLength(protocol, msg, s) ==
    IF protocol = 0
    THEN processFrameCustom([msg EXCEPT !.data_length_code = 8], s)
    ELSE IF protocol = 1
    THEN processFrameLinkGeneric([msg EXCEPT !.data_length_code = 8], s)
    ELSE processFrameLinkGeneric2([msg EXCEPT !.data_length_code = 8], s)

\* Handlers that smooth the rpm: the mean of the prior and the new value.
Decode_SmoothedRpm(protocol, msg, s) ==
    LET d == IF protocol = 0 THEN processFrameCustom(msg, s)
             ELSE IF protocol = 1 THEN processFrameLinkGeneric(msg, s)
             ELSE processFrameLinkGeneric2(msg, s)
    IN [d EXCEPT !.rpm = (s.rpm + d.rpm) \div 2]

\* Handlers that write the rpm and leave engineRunning as it was.
Decode_KeepsEngineRunning(protocol, msg, s) ==
    LET d == IF protocol = 0 THEN processFrameCustom(msg, s)
             ELSE IF protocol = 1 THEN processFrameLinkGeneric(msg, s)
             ELSE processFrameLinkGeneric2(msg, s)
    IN [d EXCEPT !.engineRunning = s.engineRunning]

\* The protocol handler selected by the preprocessor in processFrame.
Decode(protocol, msg, s) ==
    IF protocol = 0 THEN processFrameCustom(msg, s)
    ELSE IF protocol = 1 THEN processFrameLinkGeneric(msg, s)
    ELSE processFrameLinkGeneric2(msg, s)

\* The globals processFrame touches, as one value.
Ingest ==
    [state |-> state, frameLog |-> frameLog, frameLogIndex |-> frameLogIndex,
     lastCanMessageTime |-> lastCanMessageTime]

\* processFrame logging only the frames its decoder knows.
processFrame_LogsDecodedOnly(msg, g, t, protocol) ==
    IF Decode(protocol, msg, g.state) = g.state
    THEN [g EXCEPT !.lastCanMessageTime = t]
    ELSE [state |-> Decode(protocol, msg, g.state),
          frameLog |-> [g.frameLog EXCEPT ![g.frameLogIndex] =
                            [timestamp |-> t, message |-> msg]],
          frameLogIndex |-> (g.frameLogIndex + 1) % FRAME_LOG_SIZE(g.frameLog),
          lastCanMessageTime |-> t]

\* processFrame with a write index that wraps one slot early.
processFrame_WrapsEarly(msg, g, t, protocol) ==
    [state |-> Decode(protocol, msg, g.state),
     frameLog |-> [g.frameLog EXCEPT ![g.frameLogIndex] =
                       [timestamp |-> t, message |-> msg]],
     frameLogIndex |-> IF FRAME_LOG_SIZE(g.frameLog) = 1 THEN 0
                       ELSE (g.frameLogIndex + 1)
                                % (FRAME_LOG_SIZE(g.frameLog) - 1),
     lastCanMessageTime |-> t]

\* processFrame(msg, state) at uptime t.
processFrame(msg, g, t, protocol) ==
    [state |-> Decode(protocol, msg, g.state),
     frameLog |-> [g.frameLog EXCEPT ![g.frameLogIndex] =
                       [timestamp |-> t, message |-> msg]],
     frameLogIndex |-> (g.frameLogIndex + 1) % FRAME_LOG_SIZE(g.frameLog),
     lastCanMessageTime |-> t]

---------------------------------------------------------------------------
(* formatFrame, can_handler.cpp (compiled in: ENABLE_DEBUG_SERIAL is true) *)

\* sizeof(frameBuf) in processFrame.
FRAME_BUF_SIZE == 64

Min(a, b) == IF a <= b THEN a ELSE b

\* Digits printf writes for %X and for %u.
RECURSIVE HexDigits(_)
HexDigits(n) == IF n < 16 THEN 1 ELSE 1 + HexDigits(n \div 16)

RECURSIVE DecDigits(_)
DecDigits(n) == IF n < 10 THEN 1 ELSE 1 + DecDigits(n \div 10)

\* What snprintf(buf, bufSize, "ID 0x%03X DLC%u DATA", id, dlc) returns.
FormatHeaderLength(msg) ==
    5 + (IF HexDigits(msg.identifier) < 3 THEN 3 ELSE HexDigits(msg.identifier))
      + 4 + DecDigits(msg.data_length_code) + 5

\* The for loop of formatFrame: i is the index of msg.data it reads next.
RECURSIVE FormatLoop(_, _, _, _)
FormatLoop(i, pos, dlc, bufSize) ==
    IF i < dlc /\ pos < bufSize - 3
    THEN FormatLoop(i + 1, pos + 3, dlc, bufSize)
    ELSE [pos |-> pos, bytesRead |-> i]

\* formatFrame(msg, buf, bufSize): the length of the text and the number of
\* bytes of msg.data it has read, msg.data[0] .. msg.data[bytesRead - 1].
\* msg.data has 8 elements: a read at index 8 or above is outside the array
\* (the bytes so read go to the serial console only).
formatFrame(msg, bufSize) == FormatLoop(0, FormatHeaderLength(msg),
                                        msg.data_length_code, bufSize)

---------------------------------------------------------------------------
(* receiveAndProcessCan, can_handler.cpp *)

\* DrainLoop with the loop test off by one: the batch ends one frame early.
RECURSIVE DrainLoop_StopsOneEarly(_, _, _, _, _, _, _, _)
DrainLoop_StopsOneEarly(rx, i, messagesProcessed, receivedAny, maxMessages, g, t, protocol) ==
    IF messagesProcessed + 1 < maxMessages
    THEN IF rx[i] # NoFrame
         THEN DrainLoop_StopsOneEarly(rx, i + 1, messagesProcessed + 1, TRUE,
                                      maxMessages,
                                      processFrame(rx[i], g, t, protocol),
                                      t, protocol)
         ELSE [g |-> g, messagesProcessed |-> messagesProcessed,
               receivedAny |-> receivedAny,
               receives |-> i, sawNoData |-> TRUE]
    ELSE [g |-> g, messagesProcessed |-> messagesProcessed,
          receivedAny |-> receivedAny,
          receives |-> i - 1, sawNoData |-> FALSE]

\* DrainLoop without the break: a receive that reports no data is followed
\* by the next receive.
RECURSIVE DrainLoop_NoBreak(_, _, _, _, _, _, _, _)
DrainLoop_NoBreak(rx, i, messagesProcessed, receivedAny, maxMessages, g, t, protocol) ==
    IF messagesProcessed < maxMessages
    THEN IF rx[i] # NoFrame
         THEN DrainLoop_NoBreak(rx, i + 1, messagesProcessed + 1, TRUE,
                                maxMessages,
                                processFrame(rx[i], g, t, protocol),
                                t, protocol)
         ELSE IF i < maxMessages + 1
         THEN DrainLoop_NoBreak(rx, i + 1, messagesProcessed, receivedAny,
                                maxMessages, g, t, protocol)
         ELSE [g |-> g, messagesProcessed |-> messagesProcessed,
               receivedAny |-> receivedAny,
               receives |-> i, sawNoData |-> TRUE]
    ELSE [g |-> g, messagesProcessed |-> messagesProcessed,
          receivedAny |-> receivedAny,
          receives |-> i - 1, sawNoData |-> FALSE]

\* The non-blocking loop: i is the next receive of this invocation.
RECURSIVE DrainLoop(_, _, _, _, _, _, _, _)
DrainLoop(rx, i, messagesProcessed, receivedAny, maxMessages, g, t, protocol) ==
    IF messagesProcessed < maxMessages
    THEN IF rx[i] # NoFrame
         THEN DrainLoop(rx, i + 1, messagesProcessed + 1, TRUE, maxMessages,
                        processFrame(rx[i], g, t, protocol), t, protocol)
         ELSE [g |-> g, messagesProcessed |-> messagesProcessed,
               receivedAny |-> receivedAny,
               receives |-> i, sawNoData |-> TRUE]
    ELSE [g |-> g, messagesProcessed |-> messagesProcessed,
          receivedAny |-> receivedAny,
          receives |-> i - 1, sawNoData |-> FALSE]

\* Drain with the non-blocking loop started at a count of 0 whatever the
\* blocking receive returned.
Drain_FirstNotCounted(rx, maxMessages, g, t, protocol) ==
    LET firstOk == rx[1] # NoFrame
        g1 == IF firstOk THEN processFrame(rx[1], g, t, protocol) ELSE g
        r == DrainLoop(rx, 2, 0, firstOk, maxMessages, g1, t, protocol)
    IN [g |-> r.g,
        messagesProcessed |-> r.messagesProcessed + (IF firstOk THEN 1 ELSE 0),
        receives |-> r.receives, firstOk |-> firstOk,
        sawNoData |-> r.sawNoData,
        receivedAny |-> r.receivedAny]

\* Drain returning what the blocking receive alone has set.
Drain_ReportsFirstOnly(rx, maxMessages, g, t, protocol) ==
    LET firstOk == rx[1] # NoFrame
        g1 == IF firstOk THEN processFrame(rx[1], g, t, protocol) ELSE g
        r == DrainLoop(rx, 2, IF firstOk THEN 1 ELSE 0, firstOk, maxMessages,
                       g1, t, protocol)
    IN [g |-> r.g, messagesProcessed |-> r.messagesProcessed,
        receives |-> r.receives, firstOk |-> firstOk,
        sawNoData |-> r.sawNoData,
        receivedAny |-> firstOk]

\* The body of receiveAndProcessCan past the status guard: the blocking
\* receive, then the loop.
Drain(rx, maxMessages, g, t, protocol) ==
    LET firstOk == rx[1] # NoFrame
        g1 == IF firstOk THEN processFrame(rx[1], g, t, protocol) ELSE g
        r == DrainLoop(rx, 2, IF firstOk THEN 1 ELSE 0, firstOk, maxMessages,
                       g1, t, protocol)
    IN [g |-> r.g, messagesProcessed |-> r.messagesProcessed,
        receives |-> r.receives, firstOk |-> firstOk,
        sawNoData |-> r.sawNoData,
        receivedAny |-> r.receivedAny]

\* The frames processFrame was called on, in order, when the transport
\* answered rx and `receives` receives were made.
Processed(rx, receives) ==
    LET ok == {i \in 1..receives : rx[i] # NoFrame}
        RECURSIVE Collect(_)
        Collect(i) == IF i > receives THEN <<>>
                      ELSE IF i \in ok THEN <<rx[i]>> \o Collect(i + 1)
                      ELSE Collect(i + 1)
    IN Collect(1)

\* The largest number of msg.data bytes formatFrame has read of one frame
\* of the sequence frames.
FormatReads(frames) ==
    LET n == {formatFrame(frames[i], FRAME_BUF_SIZE).bytesRead :
                 i \in 1..Len(frames)}
    IN IF n = {} THEN 0 ELSE CHOOSE m \in n : \A k \in n : k <= m

\* The guard of receiveAndProcessCan.
RouterOpen(status) == status = "RUNNING"

\* One invocation of receiveAndProcessCan: the globals it leaves behind and
\* the record of the call.
RouterResult(maxMessages, rx) ==
    IF RouterOpen(canBusStatus)
    THEN LET r == Drain(rx, maxMessages, Ingest, now, CAN_PROTOCOL)
         IN [g |-> r.g,
             call |-> [op |-> "receiveAndProcessCan", pre |-> canBusStatus,
                       maxMessages |-> maxMessages,
                       receives |-> r.receives,
                       messagesProcessed |-> r.messagesProcessed,
                       firstOk |-> r.firstOk, sawNoData |-> r.sawNoData,
                       formatReads |->
                           FormatReads(Processed(rx, r.receives)),
                       ret |-> r.receivedAny]]
    ELSE [g |-> Ingest,
          call |-> [op |-> "receiveAndProcessCan", pre |-> canBusStatus,
                    maxMessages |-> maxMessages, receives |-> 0,
                    messagesProcessed |-> 0, firstOk |-> FALSE,
                    sawNoData |-> FALSE, formatReads |-> 0, ret |-> FALSE]]

\* What one invocation of receiveAndProcessCan does to the vehicle state,
\* the frame log and the last-message time, and the record of the call.
RouterEffect(maxMessages, rx) ==
    LET r == RouterResult(maxMessages, rx)
    IN /\ state' = r.g.state
       /\ frameLog' = r.g.frameLog
       /\ frameLogIndex' = r.g.frameLogIndex
       /\ lastCanMessageTime' = r.g.lastCanMessageTime
       /\ call' = r.call

\* A router that marks the link STOPPED when an invocation received no
\* frame.
ReceiveAndProcessCan_StopsOnSilence(maxMessages, rx) ==
    /\ pc = "loop"
    /\ RouterEffect(maxMessages, rx)
    /\ canBusStatus' = IF RouterOpen(canBusStatus)
                          /\ ~RouterResult(maxMessages, rx).call.ret
                       THEN "STOPPED" ELSE canBusStatus
    /\ UNCHANGED <<pc, now, canErrorMessage, lastCanHealthCheck,
                   canRestartAttemptTime, twai, CAN_PROTOCOL>>
    /\ UNCHANGED mainGlobals
    /\ UNCHANGED bridgeGlobals
    /\ UNCHANGED webGlobals

ReceiveAndProcessCan(maxMessages, rx) ==
    /\ pc = "loop"
    /\ RouterEffect(maxMessages, rx)
    /\ UNCHANGED <<pc, now, canBusStatus, canErrorMessage, lastCanHealthCheck,
                   canRestartAttemptTime, twai, CAN_PROTOCOL>>
    /\ UNCHANGED mainGlobals
    /\ UNCHANGED bridgeGlobals
    /\ UNCHANGED webGlobals

---------------------------------------------------------------------------
(* configureCan, can_handler.cpp (ENABLE_DEMO_MODE false) *)

MsgInstallFailed == "Driver install failed. Check GPIO pins."
MsgStartFailed == "Failed to start CAN bus. Check wiring and termination."
MsgBusOff == "CAN bus in BUS-OFF. Check wiring and termination."
MsgRecovering == "CAN bus recovery in progress..."

NoCall == [op |-> "none"]

\* Line 47: the status is marked RUNNING before the driver is installed.
StatusDuringInit == "RUNNING"

ConfigureCanBegin ==
    /\ pc = "setup"
    /\ canBusStatus' = StatusDuringInit
    /\ pc' = "install"
    /\ UNCHANGED <<now, canErrorMessage, lastCanMessageTime, lastCanHealthCheck,
                   canRestartAttemptTime, state, frameLog, frameLogIndex, twai,
                   call, CAN_PROTOCOL>>
    /\ UNCHANGED mainGlobals
    /\ UNCHANGED bridgeGlobals
    /\ UNCHANGED webGlobals

\* ConfigureCanInstall without the return of the failure branch: twai_start
\* is reached after a failed install.
ConfigureCanInstall_NoReturn(ok) ==
    /\ pc = "install"
    /\ twai' = [twai EXCEPT !.installCalls = @ + 1, !.installed = ok]
    /\ IF ok
       THEN UNCHANGED <<canBusStatus, canErrorMessage>>
       ELSE /\ canBusStatus' = "FAILED"
            /\ canErrorMessage' = MsgInstallFailed
    /\ pc' = "start"
    /\ UNCHANGED <<now, lastCanMessageTime, lastCanHealthCheck,
                   canRestartAttemptTime, state, frameLog, frameLogIndex,
                   call, CAN_PROTOCOL>>
    /\ UNCHANGED mainGlobals
    /\ UNCHANGED bridgeGlobals
    /\ UNCHANGED webGlobals

\* twai_driver_install and the branch on its result.
ConfigureCanInstall(ok) ==
    /\ pc = "install"
    /\ twai' = [twai EXCEPT !.installCalls = @ + 1, !.installed = ok]
    /\ IF ok
       THEN /\ pc' = "start"
            /\ UNCHANGED <<canBusStatus, canErrorMessage>>
       ELSE /\ canBusStatus' = "FAILED"
            /\ canErrorMessage' = MsgInstallFailed
            /\ pc' = "loop"
    /\ UNCHANGED <<now, lastCanMessageTime, lastCanHealthCheck,
                   canRestartAttemptTime, state, frameLog, frameLogIndex,
                   call, CAN_PROTOCOL>>
    /\ UNCHANGED mainGlobals
    /\ UNCHANGED bridgeGlobals
    /\ UNCHANGED webGlobals

\* twai_start and the branch on its result.
ConfigureCanStart(ok) ==
    /\ pc = "start"
    /\ twai' = [twai EXCEPT !.startCalls = @ + 1, !.started = ok]
    /\ IF ok
       THEN /\ canBusStatus' = "RUNNING"
            /\ canErrorMessage' = ""
       ELSE /\ canBusStatus' = "FAILED"
            /\ canErrorMessage' = MsgStartFailed
    /\ pc' = "loop"
    /\ UNCHANGED <<now, lastCanMessageTime, lastCanHealthCheck,
                   canRestartAttemptTime, state, frameLog, frameLogIndex,
                   call, CAN_PROTOCOL>>
    /\ UNCHANGED mainGlobals
    /\ UNCHANGED bridgeGlobals
    /\ UNCHANGED webGlobals

---------------------------------------------------------------------------
(* monitorCanHealth and attemptCanRecovery, can_handler.cpp *)

\* twai_status_info_t.state
TwaiStates == {"TWAI_STATE_STOPPED", "TWAI_STATE_RUNNING",
               "TWAI_STATE_BUS_OFF", "TWAI_STATE_RECOVERING"}

\* MonitorOpen with a guard that only excludes STOPPED.
MonitorOpen_AnyStarted(status) == status # "STOPPED"

\* A status guard that lets the monitor poll again after a bus-off.
MonitorOpen_RetriesBusOff(status) == status \in {"RUNNING", "BUS_OFF"}

\* The status guard of monitorCanHealth.
MonitorOpen(status) == status = "RUNNING"

\* The poll-interval gate of monitorCanHealth.
HealthCheckDue(t, last) ==
    ~(Elapsed(t, last) < Units(CAN_HEALTH_CHECK_INTERVAL))

\* What twai_get_status_info reports: the transport state and its two error
\* counters, on either side of the error-passive threshold.
ErrorCounts == {127, 128}

StatusInfos ==
    [state : TwaiStates, rx_error_counter : ErrorCounts,
     tx_error_counter : ErrorCounts]

\* The record of one monitor invocation: whether the transport was queried
\* and what the query returned ("error" when the query itself failed).
NotQueried(pre) ==
    [op |-> "monitorCanHealth", pre |-> pre, queried |-> FALSE,
     busState |-> "none", rx_error_counter |-> 0, tx_error_counter |-> 0]

Queried(pre, queryOk, info) ==
    [op |-> "monitorCanHealth", pre |-> pre, queried |-> TRUE,
     busState |-> IF queryOk THEN info.state ELSE "error",
     rx_error_counter |-> IF queryOk THEN info.rx_error_counter ELSE 0,
     tx_error_counter |-> IF queryOk THEN info.tx_error_counter ELSE 0]

\* monitorCanHealth up to its call of attemptCanRecovery. queryOk is the
\* result of twai_get_status_info, info the status it fills in.
MonitorCanHealth(queryOk, info) ==
    /\ pc = "loop"
    /\ IF ~MonitorOpen(canBusStatus)
       THEN /\ call' = NotQueried(canBusStatus)
            /\ UNCHANGED <<pc, canBusStatus, canErrorMessage, lastCanHealthCheck>>
       ELSE IF ~HealthCheckDue(now, lastCanHealthCheck)
       THEN /\ call' = NotQueried(canBusStatus)
            /\ UNCHANGED <<pc, canBusStatus, canErrorMessage, lastCanHealthCheck>>
       ELSE /\ lastCanHealthCheck' = now
            /\ call' = Queried(canBusStatus, queryOk, info)
            /\ IF queryOk /\ info.state = "TWAI_STATE_BUS_OFF"
               THEN /\ canBusStatus' = "BUS_OFF"
                    /\ canErrorMessage' = MsgBusOff
                    /\ pc' = "recovery"
               ELSE UNCHANGED <<pc, canBusStatus, canErrorMessage>>
    /\ twai' = IF call'.queried THEN [twai EXCEPT !.queriedAt = twai.uptime]
               ELSE twai
    /\ UNCHANGED <<now, lastCanMessageTime, canRestartAttemptTime, state,
                   frameLog, frameLogIndex, CAN_PROTOCOL>>
    /\ UNCHANGED mainGlobals
    /\ UNCHANGED bridgeGlobals
    /\ UNCHANGED webGlobals

\* RecoveryDue without the cooldown.
RecoveryDue_NoCooldown(t, last) == TRUE

\* A cooldown that takes the timestamp 0 for "no attempt yet".
RecoveryDue_FirstAttemptFree(t, last) ==
    last = 0 \/ ~(Elapsed(t, last) < Units(CAN_RESTART_COOLDOWN))

\* The cooldown gate of attemptCanRecovery.
RecoveryDue(t, last) == ~(Elapsed(t, last) < Units(CAN_RESTART_COOLDOWN))

\* What the latest twai_initiate_recovery call returned.
RecoveryResult(ok) == IF ok THEN "ESP_OK" ELSE "ESP_FAIL"

\* attemptCanRecovery taking every recovery call for a success.
AttemptCanRecovery_IgnoresResult(ok) ==
    /\ pc = "recovery"
    /\ IF ~RecoveryDue(now, canRestartAttemptTime)
       THEN UNCHANGED <<canRestartAttemptTime, twai, canBusStatus, canErrorMessage>>
       ELSE /\ canRestartAttemptTime' = now
            /\ twai' = [twai EXCEPT !.recoveryCalls = @ + 1,
                                    !.recoveryResult = RecoveryResult(ok),
                                    !.attemptedAt = twai.uptime]
            /\ canBusStatus' = "RECOVERING"
            /\ canErrorMessage' = MsgRecovering
    /\ pc' = "loop"
    /\ UNCHANGED <<now, lastCanMessageTime, lastCanHealthCheck, state,
                   frameLog, frameLogIndex, call, CAN_PROTOCOL>>
    /\ UNCHANGED mainGlobals
    /\ UNCHANGED bridgeGlobals
    /\ UNCHANGED webGlobals

\* attemptCanRecovery reporting a failed recovery call in the message.
AttemptCanRecovery_ReportsFailure(ok) ==
    /\ pc = "recovery"
    /\ IF ~RecoveryDue(now, canRestartAttemptTime)
       THEN UNCHANGED <<canRestartAttemptTime, twai, canBusStatus, canErrorMessage>>
       ELSE /\ canRestartAttemptTime' = now
            /\ twai' = [twai EXCEPT !.recoveryCalls = @ + 1,
                                    !.recoveryResult = RecoveryResult(ok),
                                    !.attemptedAt = twai.uptime]
            /\ IF ok
               THEN /\ canBusStatus' = "RECOVERING"
                    /\ canErrorMessage' = MsgRecovering
               ELSE /\ canErrorMessage' = "Recovery failed. Check CAN bus wiring."
                    /\ UNCHANGED canBusStatus
    /\ pc' = "loop"
    /\ UNCHANGED <<now, lastCanMessageTime, lastCanHealthCheck, state,
                   frameLog, frameLogIndex, call, CAN_PROTOCOL>>
    /\ UNCHANGED mainGlobals
    /\ UNCHANGED bridgeGlobals
    /\ UNCHANGED webGlobals

\* attemptCanRecovery, called from monitorCanHealth. ok is the result of
\* twai_initiate_recovery.
AttemptCanRecovery(ok) ==
    /\ pc = "recovery"
    /\ IF ~RecoveryDue(now, canRestartAttemptTime)
       THEN UNCHANGED <<canRestartAttemptTime, twai, canBusStatus, canErrorMessage>>
       ELSE /\ canRestartAttemptTime' = now
            /\ twai' = [twai EXCEPT !.recoveryCalls = @ + 1,
                                    !.recoveryResult = RecoveryResult(ok),
                                    !.attemptedAt = twai.uptime]
            /\ IF ok
               THEN /\ canBusStatus' = "RECOVERING"
                    /\ canErrorMessage' = MsgRecovering
               ELSE UNCHANGED <<canBusStatus, canErrorMessage>>
    /\ pc' = "loop"
    /\ UNCHANGED <<now, lastCanMessageTime, lastCanHealthCheck, state,
                   frameLog, frameLogIndex, call, CAN_PROTOCOL>>
    /\ UNCHANGED mainGlobals
    /\ UNCHANGED bridgeGlobals
    /\ UNCHANGED webGlobals

---------------------------------------------------------------------------
(* Time *)

\* millis() advances between two handler invocations of the device cycle.
Tick ==
    /\ pc = "loop"
    /\ now < MaxTicks * Units(TickMs)
    /\ now' = (now + Units(TickMs)) % UptimeModulus
    /\ twai' = [twai EXCEPT !.uptime = @ + Units(TickMs)]
    /\ UNCHANGED <<pc, canBusStatus, canErrorMessage, lastCanMessageTime,
                   lastCanHealthCheck, canRestartAttemptTime, state, frameLog,
                   frameLogIndex, call, CAN_PROTOCOL>>
    /\ UNCHANGED mainGlobals
    /\ UNCHANGED bridgeGlobals
    /\ UNCHANGED webGlobals

---------------------------------------------------------------------------
(* The modular firmware *)

Init ==
    /\ pc = "setup"
    /\ now = 0
    /\ canBusStatus = "STOPPED"
    /\ canErrorMessage = ""
    /\ lastCanMessageTime = 0
    /\ lastCanHealthCheck = 0
    /\ canRestartAttemptTime = 0
    /\ state = InitialVehicleState
    /\ frameLog = EmptyFrameLog(LogCapacity)
    /\ frameLogIndex = 0
    /\ twai = [installCalls |-> 0, installed |-> FALSE, startCalls |-> 0,
               started |-> FALSE, recoveryCalls |-> 0,
               recoveryResult |-> "none", bridgeCalls |-> 0,
               uptime |-> 0, queriedAt |-> 0, attemptedAt |-> 0]
    /\ call = NoCall
    /\ CAN_PROTOCOL = 1          \* #define CAN_PROTOCOL 1, config.h
    /\ dataAge = InitialDataAge
    /\ validationStats = InitialValidationStats
    /\ serialBuffer = <<>>
    /\ userConfig = InitialUserConfig

Next ==
    \/ ConfigureCanBegin
    \/ \E ok \in BOOLEAN : ConfigureCanInstall(ok)
    \/ \E ok \in BOOLEAN : ConfigureCanStart(ok)
    \/ \E queryOk \in BOOLEAN, info \in StatusInfos :
           MonitorCanHealth(queryOk, info)
    \/ \E ok \in BOOLEAN : AttemptCanRecovery(ok)
    \/ \E maxMessages \in 0..MaxMessagesArg :
           \E rx \in RxOutcomes(maxMessages) : ReceiveAndProcessCan(maxMessages, rx)
    \/ Tick

Spec == Init /\ [][Next]_vars

---------------------------------------------------------------------------
(* The monolithic firmware, main.cpp *)

\* Identifiers of main.cpp (they differ from config.h from 0x104 on).
Main_ID_THROTTLE == 256
Main_ID_PEDALS == 257
Main_ID_RPM == 258
Main_ID_COOLANT == 259
Main_ID_REV_LIM == 260
Main_ID_ALS == 261
Main_ID_OIL_PRES == 262
Main_ID_IGNITION == 263

MAX_REASONABLE_RPM == 12000
MAX_REASONABLE_COOLANT == 1500
MAX_REASONABLE_OIL_PRESSURE == 1000

\* Frames delivered to one loop() iteration before a receive fails.
MaxQueued == 1
\* Frames delivered over a whole run (caps totalMessagesProcessed).
MaxMainFrames == 2
\* Number of TickMs steps the uptime clock of main.cpp advances.
MainMaxTicks == 1

\* VehicleState of main.cpp.
MainInitialVehicleState ==
    [ throttlePercent |-> 0, brakePercent |-> 0, handBrakePercent |-> 0,
      clutchPercent |-> 0, rpm |-> 0, rpmRedline |-> 6500, coolant10x |-> 900,
      revLimiter |-> FALSE, alsActive |-> FALSE, oilPressure10kPa |-> 0,
      ignitionOn |-> FALSE ]

\* ReceivedFrame frameLog[FRAME_LOG_SIZE] of main.cpp, n slots.
MainEmptyFrameLog(n) ==
    [i \in 0..(n - 1) |-> [id |-> 0, dlc |-> 0, data |-> ZeroData, timestampMs |-> 0]]

\* The frames the transport delivers to main.cpp: the rpm frame with a
\* plausible value (3000) and with an implausible one (13000).
MainFrames ==
    { [identifier |-> Main_ID_RPM, data_length_code |-> 2,
       data |-> <<184, 11, 0, 0, 0, 0, 0, 0>>],
      [identifier |-> Main_ID_RPM, data_length_code |-> 2,
       data |-> <<200, 50, 0, 0, 0, 0, 0, 0>>] }

\* The frames of the sequence frames, each with the uptime t of its receive.
RECURSIVE Stamped(_, _)
Stamped(frames, t) ==
    IF frames = <<>> THEN <<>>
    ELSE <<[timestamp |-> t, message |-> Head(frames)]>>
             \o Stamped(Tail(frames), t)

\* The frames twai_receive hands out, in order, before it reports a
\* timeout or an error.
MainRxOutcomes ==
    UNION { [1..n -> MainFrames] : n \in 0..MaxQueued }

\* The globals one loop() iteration reads and writes, as one value.
MainGlobals ==
    [state |-> state, dataAge |-> dataAge, validationStats |-> validationStats,
     frameLog |-> frameLog, frameLogHead |-> frameLogIndex,
     lastCanMessageTime |-> lastCanMessageTime]

\* The switch of processFrame(msg) at uptime t, on the vehicle state s, the
\* data ages a and the validation counters v (totalMessagesProcessed
\* already incremented).
MainDecode(msg, s, a, v, t) ==
    LET dlc == msg.data_length_code
        id == msg.identifier
        same == [state |-> s, dataAge |-> a, validationStats |-> v]
    IN
    IF id = Main_ID_THROTTLE THEN
        IF dlc >= 1
        THEN [same EXCEPT !.state.throttlePercent = constrain(Byte(msg, 0), 0, 100),
                          !.dataAge.lastThrottleUpdate = t]
        ELSE same
    ELSE IF id = Main_ID_PEDALS THEN
        LET s1 == IF dlc >= 1
                  THEN [s EXCEPT !.brakePercent = constrain(Byte(msg, 0), 0, 100)]
                  ELSE s
            s2 == IF dlc >= 2
                  THEN [s1 EXCEPT !.handBrakePercent = constrain(Byte(msg, 1), 0, 100)]
                  ELSE s1
            s3 == IF dlc >= 3
                  THEN [s2 EXCEPT !.clutchPercent = constrain(Byte(msg, 2), 0, 100)]
                  ELSE s2
        IN [same EXCEPT !.state = s3]
    ELSE IF id = Main_ID_RPM THEN
        IF dlc >= 2
        THEN IF U16(msg, 0) <= MAX_REASONABLE_RPM
             THEN [same EXCEPT !.state.rpm = U16(msg, 0),
                               !.dataAge.lastRpmUpdate = t]
             ELSE [same EXCEPT !.validationStats.invalidRpmCount = @ + 1]
        ELSE same
    ELSE IF id = Main_ID_COOLANT THEN
        IF dlc >= 2
        THEN IF U16(msg, 0) <= MAX_REASONABLE_COOLANT
             THEN [same EXCEPT !.state.coolant10x = U16(msg, 0),
                               !.dataAge.lastCoolantUpdate = t]
             ELSE [same EXCEPT !.validationStats.invalidCoolantCount = @ + 1]
        ELSE same
    ELSE IF id = Main_ID_REV_LIM THEN
        IF dlc >= 1 THEN [same EXCEPT !.state.revLimiter = (Byte(msg, 0) # 0)]
        ELSE same
    ELSE IF id = Main_ID_ALS THEN
        IF dlc >= 1 THEN [same EXCEPT !.state.alsActive = (Byte(msg, 0) # 0)]
        ELSE same
    ELSE IF id = Main_ID_OIL_PRES THEN
        IF dlc >= 2
        THEN IF U16(msg, 0) <= MAX_REASONABLE_OIL_PRESSURE
             THEN [same EXCEPT !.state.oilPressure10kPa = U16(msg, 0),
                               !.dataAge.lastOilPressureUpdate = t]
             ELSE [same EXCEPT !.validationStats.invalidOilPressureCount = @ + 1]
        ELSE same
    ELSE IF id = Main_ID_IGNITION THEN
        IF dlc >= 1 THEN [same EXCEPT !.state.ignitionOn = (Byte(msg, 0) # 0)]
        ELSE same
    ELSE same

\* processFrame(msg) of main.cpp.
MainProcessFrame(msg, g, t) ==
    LET v == [g.validationStats EXCEPT !.totalMessagesProcessed = @ + 1]
        d == MainDecode(msg, g.state, g.dataAge, v, t)
    IN [g EXCEPT !.state = d.state, !.dataAge = d.dataAge,
                 !.validationStats = d.validationStats]

\* appendFrameToLog(msg) at uptime t: the DLC is clamped to 8 and only that
\* many data bytes are copied over the slot's previous content.
appendFrameToLog(msg, g, t) ==
    LET slot == g.frameLog[g.frameLogHead]
        dlc == IF msg.data_length_code > 8 THEN 8 ELSE msg.data_length_code
    IN [g EXCEPT
          !.frameLog[g.frameLogHead] =
              [id |-> msg.identifier, dlc |-> dlc,
               data |-> [i \in 1..8 |-> IF i <= dlc THEN msg.data[i]
                                        ELSE slot.data[i]],
               timestampMs |-> t],
          !.frameLogHead = (g.frameLogHead + 1) % FRAME_LOG_SIZE(g.frameLog)]

\* The receive loop of loop(): rx is what the transport still has to hand
\* out; the loop ends at MAX_MESSAGES_PER_LOOP frames or at the first
\* receive that does not return ESP_OK.
RECURSIVE MainDrainLoop(_, _, _, _)
MainDrainLoop(rx, messagesProcessed, g, t) ==
    IF messagesProcessed < MAX_MESSAGES_PER_LOOP
    THEN IF messagesProcessed < Len(rx)
         THEN LET message == rx[messagesProcessed + 1]
                  g1 == [g EXCEPT !.lastCanMessageTime = t]
                  g2 == MainProcessFrame(message, g1, t)
                  g3 == appendFrameToLog(message, g2, t)
              IN MainDrainLoop(rx, messagesProcessed + 1, g3, t)
         ELSE [g |-> g, messagesProcessed |-> messagesProcessed,
               receives |-> messagesProcessed + 1]
    ELSE [g |-> g, messagesProcessed |-> messagesProcessed,
          receives |-> messagesProcessed]

MsgMainInstallFailed == "Driver install failed. Check GPIO pins."
MsgMainStartFailed == "Failed to start CAN bus. Check wiring and termination."
MsgMainRecoveryStarted == "CAN bus in BUS-OFF. Recovery in progress..."
MsgMainRecoveryFailed ==
    "CAN bus BUS-OFF. Recovery failed. Check wiring and restart device."
MsgErrorPassive(rx, tx) ==
    "CAN bus in ERROR-PASSIVE. RX errors: " \o ToString(rx)
        \o ", TX errors: " \o ToString(tx)

\* configureCan of main.cpp, as called from setup(): INITIALIZING is
\* overwritten before it returns.
MainConfigureCan(installOk, startOk) ==
    /\ pc = "setup"
    /\ canBusStatus = "NOT_INITIALIZED"
    /\ twai' = [twai EXCEPT !.installCalls = @ + 1, !.installed = installOk,
                            !.startCalls = IF installOk THEN @ + 1 ELSE @,
                            !.started = installOk /\ startOk]
    /\ canBusStatus' = IF ~installOk THEN "FAILED_DRIVER_INSTALL"
                       ELSE IF startOk THEN "RUNNING" ELSE "FAILED_START"
    /\ canErrorMessage' = IF ~installOk THEN MsgMainInstallFailed
                          ELSE IF startOk THEN "" ELSE MsgMainStartFailed
    /\ pc' = "loop"
    /\ UNCHANGED <<now, lastCanMessageTime, state, frameLog, frameLogIndex,
                   call, dataAge, validationStats>>
    /\ UNCHANGED modularGlobals
    /\ UNCHANGED bridgeGlobals
    /\ UNCHANGED webGlobals

\* No twai_get_status_info call has been made yet.
NoQuery == -1

\* monitorCanHealth of main.cpp on the status and message it finds:
\* the status, the message and the driver calls it leaves behind.
MainMonitorCanHealth(status, message, queryOk, info, recoveryOk) ==
    LET same == [canBusStatus |-> status, canErrorMessage |-> message,
                 queried |-> FALSE, recovery |-> FALSE]
    IN
    IF status # "RUNNING" THEN same
    ELSE IF ~queryOk THEN [same EXCEPT !.queried = TRUE]
    ELSE IF info.state = "TWAI_STATE_BUS_OFF"
    THEN [canBusStatus |-> "BUS_OFF",
          canErrorMessage |-> IF recoveryOk THEN MsgMainRecoveryStarted
                              ELSE MsgMainRecoveryFailed,
          queried |-> TRUE, recovery |-> TRUE]
    ELSE IF info.rx_error_counter >= ERROR_PASSIVE_THRESHOLD
            \/ info.tx_error_counter >= ERROR_PASSIVE_THRESHOLD
    THEN [canBusStatus |-> "ERROR_PASSIVE",
          canErrorMessage |-> MsgErrorPassive(info.rx_error_counter,
                                              info.tx_error_counter),
          queried |-> TRUE, recovery |-> FALSE]
    ELSE IF status = "ERROR_PASSIVE"
    THEN [canBusStatus |-> "RUNNING", canErrorMessage |-> "",
          queried |-> TRUE, recovery |-> FALSE]
    ELSE [same EXCEPT !.queried = TRUE]

\* loop(), first part: the call of monitorCanHealth. twai.lastQuery is the
\* uptime of the latest twai_get_status_info call, NoQuery before the first.
MainLoopMonitor(queryOk, info, recoveryOk) ==
    /\ pc = "loop"
    /\ LET m == MainMonitorCanHealth(canBusStatus, canErrorMessage, queryOk,
                                     info, recoveryOk)
       IN /\ canBusStatus' = m.canBusStatus
          /\ canErrorMessage' = m.canErrorMessage
          /\ twai' = [twai EXCEPT !.recoveryCalls =
                                     IF m.recovery THEN @ + 1 ELSE @,
                                 !.lastQuery =
                                     IF m.queried THEN now ELSE @]
          /\ call' = [op |-> "monitorCanHealth", pre |-> canBusStatus,
                      queried |-> m.queried,
                      busState |-> IF ~m.queried THEN "none"
                                   ELSE IF queryOk THEN info.state ELSE "error",
                      rx_error_counter |->
                          IF m.queried /\ queryOk THEN info.rx_error_counter ELSE 0,
                      tx_error_counter |->
                          IF m.queried /\ queryOk THEN info.tx_error_counter ELSE 0]
    /\ pc' = "drain"
    /\ UNCHANGED <<now, lastCanMessageTime, state, frameLog, frameLogIndex,
                   dataAge, validationStats>>
    /\ UNCHANGED modularGlobals
    /\ UNCHANGED bridgeGlobals
    /\ UNCHANGED webGlobals

\* loop(), second part: the receive loop (the rendering that follows writes
\* none of the modelled globals). twai.received grows by the frames
\* twai_receive returned with ESP_OK.
MainLoopDrain(rx) ==
    /\ pc = "drain"
    /\ Len(rx) <= MaxMainFrames - validationStats.totalMessagesProcessed
    /\ LET r == MainDrainLoop(rx, 0, MainGlobals, now)
       IN /\ state' = r.g.state
          /\ dataAge' = r.g.dataAge
          /\ validationStats' = r.g.validationStats
          /\ frameLog' = r.g.frameLog
          /\ frameLogIndex' = r.g.frameLogHead
          /\ lastCanMessageTime' = r.g.lastCanMessageTime
          /\ call' = [op |-> "drain", pre |-> canBusStatus,
                      receives |-> r.receives,
                      messagesProcessed |-> r.messagesProcessed]
          /\ twai' = [twai EXCEPT !.received =
                         @ \o Stamped(SubSeq(rx, 1, r.messagesProcessed), now)]
    /\ pc' = "loop"
    /\ UNCHANGED <<now, canBusStatus, canErrorMessage>>
    /\ UNCHANGED modularGlobals
    /\ UNCHANGED bridgeGlobals
    /\ UNCHANGED webGlobals

\* millis() advances between two iterations of loop().
MainTick ==
    /\ pc = "loop"
    /\ now < MainMaxTicks * Units(TickMs)
    /\ now' = (now + Units(TickMs)) % UptimeModulus
    /\ UNCHANGED <<pc, canBusStatus, canErrorMessage, lastCanMessageTime,
                   state, frameLog, frameLogIndex, twai, call, dataAge,
                   validationStats>>
    /\ UNCHANGED modularGlobals
    /\ UNCHANGED bridgeGlobals
    /\ UNCHANGED webGlobals

InitMain ==
    /\ pc = "setup"
    /\ now = 0
    /\ canBusStatus = "NOT_INITIALIZED"
    /\ canErrorMessage = ""
    /\ lastCanMessageTime = 0
    /\ state = MainInitialVehicleState
    /\ frameLog = MainEmptyFrameLog(LogCapacity)
    /\ frameLogIndex = 0
    /\ dataAge = InitialDataAge
    /\ validationStats = InitialValidationStats
    /\ serialBuffer = <<>>
    /\ userConfig = InitialUserConfig
    /\ twai = [installCalls |-> 0, installed |-> FALSE, startCalls |-> 0,
               started |-> FALSE, recoveryCalls |-> 0, received |-> <<>>,
               lastQuery |-> NoQuery]
    /\ call = NoCall
    /\ lastCanHealthCheck = 0
    /\ canRestartAttemptTime = 0
    /\ CAN_PROTOCOL = 0

NextMain ==
    \/ \E installOk \in BOOLEAN, startOk \in BOOLEAN :
           MainConfigureCan(installOk, startOk)
    \/ \E queryOk \in BOOLEAN, info \in StatusInfos, recoveryOk \in BOOLEAN :
           MainLoopMonitor(queryOk, info, recoveryOk)
    \/ \E rx \in MainRxOutcomes : MainLoopDrain(rx)
    \/ MainTick

SpecMain == InitMain /\ [][NextMain]_vars

---------------------------------------------------------------------------
(* The frame path of the modular firmware: the router, processFrame and the
   frame log, with the answers of the transport on record *)

\* Slots of the frame log in the frame-path model (config.h has 50).
RingCapacity == 2
\* Number of TickMs steps the uptime clock advances in the frame-path model.
RouterMaxTicks == 1
\* Frames the transport delivers over a whole run: one more than the log
\* has slots, so that the oldest entry is overwritten.
MaxReceived == RingCapacity + 1

\* CAN:102:2:E803, the rpm frame of the Custom table (1000 rpm): the Link
\* table, which is the active one, does not know its identifier.
ForeignFrames ==
    { [identifier |-> ID_RPM, data_length_code |-> 2,
       data |-> <<232, 3, 0, 0, 0, 0, 0, 0>>] }

\* The frames the transport delivers in the frame-path model.
LogFrames == RouterFrames \cup ForeignFrames

\* What the transport has for the successive twai_receive calls of one
\* router invocation, were they all made: a receive that reports no data
\* can be followed by one that would deliver a frame.
RxOffers(maxMessages) == [1..(maxMessages + 1) -> LogFrames \cup {NoFrame}]

\* The number of frames among the answers rx.
FramesIn(rx) == Cardinality({i \in DOMAIN rx : rx[i] # NoFrame})

\* receiveAndProcessCan, with the driver's side on record: twai.offered is
\* what the transport had for the receives of this invocation, and
\* twai.received grows by the frames twai_receive returned with ESP_OK.
RouterReceiveAndProcessCan(maxMessages, rx) ==
    /\ pc = "loop"
    /\ Len(twai.received) + FramesIn(rx) <= MaxReceived
    /\ RouterEffect(maxMessages, rx)
    /\ twai' = [twai EXCEPT
                   !.offered = rx,
                   !.received = @ \o Stamped(Processed(rx, call'.receives), now)]
    /\ UNCHANGED <<pc, now, canBusStatus, canErrorMessage, lastCanHealthCheck,
                   canRestartAttemptTime, CAN_PROTOCOL>>
    /\ UNCHANGED mainGlobals
    /\ UNCHANGED bridgeGlobals
    /\ UNCHANGED webGlobals

\* millis() advances between two router invocations.
RouterTick ==
    /\ pc = "loop"
    /\ now < RouterMaxTicks * Units(TickMs)
    /\ now' = (now + Units(TickMs)) % UptimeModulus
    /\ UNCHANGED <<pc, canBusStatus, canErrorMessage, lastCanMessageTime,
                   lastCanHealthCheck, canRestartAttemptTime, state, frameLog,
                   frameLogIndex, twai, call, CAN_PROTOCOL>>
    /\ UNCHANGED mainGlobals
    /\ UNCHANGED bridgeGlobals
    /\ UNCHANGED webGlobals

InitRouter ==
    /\ pc = "setup"
    /\ now = 0
    /\ canBusStatus = "STOPPED"
    /\ canErrorMessage = ""
    /\ lastCanMessageTime = 0
    /\ lastCanHealthCheck = 0
    /\ canRestartAttemptTime = 0
    /\ state = InitialVehicleState
    /\ frameLog = EmptyFrameLog(RingCapacity)
    /\ frameLogIndex = 0
    /\ twai = [installCalls |-> 0, installed |-> FALSE, startCalls |-> 0,
               started |-> FALSE, recoveryCalls |-> 0,
               offered |-> <<>>, received |-> <<>>]
    /\ call = NoCall
    /\ CAN_PROTOCOL = 1          \* #define CAN_PROTOCOL 1, config.h
    /\ dataAge = InitialDataAge
    /\ validationStats = InitialValidationStats
    /\ serialBuffer = <<>>
    /\ userConfig = InitialUserConfig

NextRouter ==
    \/ ConfigureCanBegin
    \/ \E ok \in BOOLEAN : ConfigureCanInstall(ok)
    \/ \E ok \in BOOLEAN : ConfigureCanStart(ok)
    \/ \E maxMessages \in 0..MaxMessagesArg :
           \E rx \in RxOffers(maxMessages) :
               RouterReceiveAndProcessCan(maxMessages, rx)
    \/ RouterTick

SpecRouter == InitRouter /\ [][NextRouter]_vars

---------------------------------------------------------------------------
(* The decoders of the modular firmware, one frame at a time, under each of
   the three protocols *)

\* Frames decoded in one run.
MaxDecoded == 1
\* Largest data_length_code the transport hands over; twai_message_t holds
\* 8 data bytes and the field is a uint8_t.
MaxDlc == 9

\* The identifiers config.h lists for each protocol.
ProtocolIds(protocol) ==
    IF protocol = 0
    THEN {ID_THROTTLE, ID_PEDALS, ID_RPM, ID_COOLANT, ID_OIL_PRESSURE,
          ID_FLAGS, ID_IGNITION}
    ELSE IF protocol = 1
    THEN {ID_RPM_TPS, ID_FUEL_IGN, ID_PRESSURES, ID_TEMPERATURES,
          ID_VOLTAGE_FLAGS, ID_GEAR_OIL, ID_VEHICLE_SPEED, ID_THROTTLE_SENSORS}
    ELSE {ID_ENGINE_DATA_1, ID_ENGINE_DATA_2, ID_ENGINE_DATA_3,
          ID_ENGINE_DATA_4, ID_VEHICLE_DATA_1, ID_VEHICLE_DATA_2,
          ID_FLAGS_WARNINGS, ID_ANALOG_INPUTS}

\* Identifiers a protocol does not list: the rpm identifier of each of the
\* other two, and 0x7FF, which none of the three lists.
ForeignIds(protocol) ==
    {ID_RPM, ID_RPM_TPS, ID_ENGINE_DATA_1, 2047} \ ProtocolIds(protocol)

\* Payloads. The first one is out of every range: percentage bytes above
\* 100, 16-bit values 13003 and 1921, a 32-bit value above 65535, flag bits
\* set. The second one is that of CAN:5F0:8:E803000064000000.
WildData == <<203, 50, 129, 7, 220, 5, 131, 255>>
PlainData == <<232, 3, 0, 0, 100, 0, 0, 0>>

\* Payloads at the edges of the rpm threshold and of the sign of a 16-bit
\* value: bytes 0-1 hold 300, 301 and 0, bytes 2-3 hold 0xFFFF, 0x8000
\* and 0x7FFF.
EdgeData ==
    { <<44, 1, 255, 255, 0, 0, 0, 0>>,
      <<45, 1, 0, 128, 0, 0, 0, 0>>,
      <<0, 0, 255, 127, 0, 0, 0, 0>> }

\* The identifiers that carry an rpm or an ignition timing.
EdgeIds(protocol) ==
    IF protocol = 0 THEN {ID_RPM}
    ELSE IF protocol = 1 THEN {ID_RPM_TPS, ID_FUEL_IGN}
    ELSE {ID_ENGINE_DATA_1, ID_ENGINE_DATA_3}

\* The frames the transport delivers in the decoder model: every listed
\* identifier at every length from 0 to MaxDlc, the other identifiers at
\* length 8, and the rpm and timing frames with the edge payloads.
DecodeFrames(protocol) ==
    { [identifier |-> id, data_length_code |-> dlc, data |-> WildData] :
          id \in ProtocolIds(protocol), dlc \in 0..MaxDlc }
    \cup { [identifier |-> id, data_length_code |-> 8, data |-> PlainData] :
               id \in ProtocolIds(protocol) }
    \cup { [identifier |-> id, data_length_code |-> 8, data |-> WildData] :
               id \in ForeignIds(protocol) }
    \cup { [identifier |-> id, data_length_code |-> 8, data |-> data] :
               id \in EdgeIds(protocol), data \in EdgeData }

\* The build-time choices of CAN_PROTOCOL.
Protocols == {0, 1, 2}

\* receiveAndProcessCan(state, 1) in a build for the given protocol when the
\* transport has the frame msg: the record of the call also keeps the frame
\* and the vehicle state the invocation found, and twai.frames counts the
\* frames handed over.
DecodeReceiveAndProcessCan(protocol, msg) ==
    /\ pc = "loop"
    /\ twai.frames < MaxDecoded
    /\ protocol = CAN_PROTOCOL
    /\ LET r == RouterResult(1, <<msg, NoFrame>>)
       IN /\ state' = r.g.state
          /\ frameLog' = r.g.frameLog
          /\ frameLogIndex' = r.g.frameLogIndex
          /\ lastCanMessageTime' = r.g.lastCanMessageTime
          /\ call' = r.call @@ [before |-> state,
                                msg |-> IF r.call.messagesProcessed = 1
                                        THEN msg ELSE NoFrame]
          /\ twai' = [twai EXCEPT !.frames = @ + r.call.messagesProcessed]
    /\ UNCHANGED <<pc, now, canBusStatus, canErrorMessage, lastCanHealthCheck,
                   canRestartAttemptTime, CAN_PROTOCOL>>
    /\ UNCHANGED mainGlobals
    /\ UNCHANGED bridgeGlobals
    /\ UNCHANGED webGlobals

InitDecode ==
    /\ pc = "setup"
    /\ now = 0
    /\ canBusStatus = "STOPPED"
    /\ canErrorMessage = ""
    /\ lastCanMessageTime = 0
    /\ lastCanHealthCheck = 0
    /\ canRestartAttemptTime = 0
    /\ state = InitialVehicleState
    /\ frameLog = EmptyFrameLog(LogCapacity)
    /\ frameLogIndex = 0
    /\ twai = [installCalls |-> 0, installed |-> FALSE, startCalls |-> 0,
               started |-> FALSE, recoveryCalls |-> 0, frames |-> 0]
    /\ call = NoCall
    /\ CAN_PROTOCOL \in Protocols
    /\ dataAge = InitialDataAge
    /\ validationStats = InitialValidationStats
    /\ serialBuffer = <<>>
    /\ userConfig = InitialUserConfig

NextDecode ==
    \/ ConfigureCanBegin
    \/ \E ok \in BOOLEAN : ConfigureCanInstall(ok)
    \/ \E ok \in BOOLEAN : ConfigureCanStart(ok)
    \/ \E protocol \in Protocols :
           \E msg \in DecodeFrames(protocol) :
               DecodeReceiveAndProcessCan(protocol, msg)

SpecDecode == InitDecode /\ [][NextDecode]_vars

---------------------------------------------------------------------------
(* The serial bridge, can_handler.cpp (compiled with
   ENABLE_SERIAL_CAN_BRIDGE). Characters are strings of length one; a line
   is the sequence of characters before its terminating NUL. *)

\* sizeof(serialBuffer).
SERIAL_BUFFER_SIZE == 64

HexUpper ==
    <<"0", "1", "2", "3", "4", "5", "6", "7", "8", "9",
      "A", "B", "C", "D", "E", "F">>
HexLower == <<"a", "b", "c", "d", "e", "f">>

\* hexCharToNibble without the lower-case branch.
hexCharToNibble_UpperOnly(c) ==
    IF \E i \in 1..16 : HexUpper[i] = c
    THEN (CHOOSE i \in 1..16 : HexUpper[i] = c) - 1
    ELSE -1

\* hexCharToNibble(c): 0..15, or -1 for a character that is no hex digit.
hexCharToNibble(c) ==
    IF \E i \in 1..16 : HexUpper[i] = c
    THEN (CHOOSE i \in 1..16 : HexUpper[i] = c) - 1
    ELSE IF \E i \in 1..6 : HexLower[i] = c
    THEN (CHOOSE i \in 1..6 : HexLower[i] = c) + 9
    ELSE -1

\* parseHexBytes(hex, out, maxLen, &actualLen): the bytes written to out,
\* in order (actualLen is their number), and the result. The loop runs
\* while two more characters are left and fewer than maxLen bytes were
\* written; a pair with a character that is no hex digit makes it fail.
RECURSIVE parseHexBytes(_, _, _)
parseHexBytes(hex, out, maxLen) ==
    IF Len(hex) >= 2 /\ Len(out) < maxLen
    THEN LET high == hexCharToNibble(hex[1])
             low == hexCharToNibble(hex[2])
         IN IF high < 0 \/ low < 0
            THEN [ok |-> FALSE, out |-> out]
            ELSE parseHexBytes(SubSeq(hex, 3, Len(hex)),
                               Append(out, 16 * high + low), maxLen)
    ELSE [ok |-> TRUE, out |-> out]

\* The hex digits at the head of s, accumulated onto value; used is the
\* number of digits taken so far.
RECURSIVE HexRun(_, _, _)
HexRun(s, value, used) ==
    IF s # <<>> /\ hexCharToNibble(s[1]) >= 0
    THEN HexRun(Tail(s), 16 * value + hexCharToNibble(s[1]), used + 1)
    ELSE [value |-> value, used |-> used]

\* The number of blanks at the head of s.
RECURSIVE Blanks(_)
Blanks(s) == IF s # <<>> /\ s[1] = " " THEN 1 + Blanks(Tail(s)) ELSE 0

\* strtoul(s, &endPtr, 16) of the C library: leading blanks, an optional
\* plus sign and an optional 0x or 0X are skipped, then hex digits are
\* converted. end is the index of the last character consumed, 0 when no
\* digit was found (endPtr == s). Values stay below 2^31 in the model.
strtoul(s) ==
    LET b == Blanks(s)
        s1 == SubSeq(s, b + 1, Len(s))
        p == IF s1 # <<>> /\ s1[1] = "+" THEN 1 ELSE 0
        s2 == SubSeq(s1, p + 1, Len(s1))
        x == IF Len(s2) >= 2 /\ s2[1] = "0" /\ s2[2] \in {"x", "X"}
             THEN 2 ELSE 0
        s3 == SubSeq(s2, x + 1, Len(s2))
        run == HexRun(s3, 0, 0)
    IN IF run.used = 0 THEN [value |-> 0, end |-> 0]
       ELSE [value |-> run.value, end |-> b + p + x + run.used]

CanPrefix == <<"C", "A", "N", ":">>

\* The character at index i (from 1) of a NUL-terminated line; "" stands
\* for the NUL.
CharAt(line, i) == IF i <= Len(line) THEN line[i] ELSE ""

\* A length test that lets every decimal digit pass.
IsDlcDigit_AnyDigit(c) ==
    c \in {"0", "1", "2", "3", "4", "5", "6", "7", "8", "9"}

\* !(*line < '0' || *line > '8').
IsDlcDigit(c) == c \in {"0", "1", "2", "3", "4", "5", "6", "7", "8"}

\* A parser that takes the length of the frame from the data field when
\* that holds more bytes than the length digit says.
parseSerialCanFrame_LengthFromData(line, stack) ==
    LET rejected == [ok |-> FALSE, msg |-> NoFrame]
    IN
    IF ~(Len(line) >= 4 /\ SubSeq(line, 1, 4) = CanPrefix) THEN rejected
    ELSE
    LET idText == SubSeq(line, 5, Len(line))
        id == strtoul(idText)
    IN
    IF id.end = 0 \/ CharAt(idText, id.end + 1) # ":" THEN rejected
    ELSE
    LET rest == SubSeq(idText, id.end + 2, Len(idText))
    IN
    IF ~IsDlcDigit(CharAt(rest, 1)) \/ CharAt(rest, 2) # ":"
    THEN rejected
    ELSE
    LET hex == parseHexBytes(SubSeq(rest, 3, Len(rest)), <<>>, 8)
        actualLen == Len(hex.out)
        dlc == Max(hexCharToNibble(rest[1]), actualLen)
    IN
    IF ~hex.ok THEN rejected
    ELSE [ok |-> TRUE,
          msg |-> [identifier |-> id.value,
                   data_length_code |-> dlc,
                   data |-> [i \in 1..8 |->
                                IF i <= actualLen THEN hex.out[i]
                                ELSE IF i <= dlc THEN 0
                                ELSE stack[i]]]]

\* parseSerialCanFrame(line, msg): stack is what the eight bytes of the
\* uninitialised local msg.data hold before the call. The data bytes are
\* those parseHexBytes wrote, then zeros up to data_length_code, then
\* what the stack held.
parseSerialCanFrame(line, stack) ==
    LET rejected == [ok |-> FALSE, msg |-> NoFrame]
    IN
    IF ~(Len(line) >= 4 /\ SubSeq(line, 1, 4) = CanPrefix) THEN rejected
    ELSE
    LET idText == SubSeq(line, 5, Len(line))
        id == strtoul(idText)
    IN
    IF id.end = 0 \/ CharAt(idText, id.end + 1) # ":" THEN rejected
    ELSE
    LET rest == SubSeq(idText, id.end + 2, Len(idText))
    IN
    IF ~IsDlcDigit(CharAt(rest, 1)) \/ CharAt(rest, 2) # ":"
    THEN rejected
    ELSE
    LET dlc == hexCharToNibble(rest[1])
        hex == parseHexBytes(SubSeq(rest, 3, Len(rest)), <<>>, 8)
        actualLen == Len(hex.out)
    IN
    IF ~hex.ok THEN rejected
    ELSE [ok |-> TRUE,
          msg |-> [identifier |-> id.value,
                   data_length_code |-> dlc,
                   data |-> [i \in 1..8 |->
                                IF i <= actualLen THEN hex.out[i]
                                ELSE IF i <= dlc THEN 0
                                ELSE stack[i]]]]

---------------------------------------------------------------------------
(* What arrives on the serial port *)

\* Calls of processSerialCanBridge in one run: the first one finds the
\* buffer empty, each further one finds the line the one before left
\* unfinished.
MaxBridgeCalls == 2
\* Lines that arrive back to back during one call.
MaxBurst == 6

\* Identifiers as they are written on the line, with their values.
SerialIds ==
    { [text |-> <<"1", "0", "2">>, value |-> 258],
      [text |-> <<"5", "F", "0">>, value |-> 1520],
      [text |-> <<"7", "f", "f">>, value |-> 2047] }

\* The data bytes a sender writes, in order, as text and as values.
SerialBytes ==
    << [text |-> <<"E", "8">>, value |-> 232],
       [text |-> <<"0", "3">>, value |-> 3],
       [text |-> <<"f", "F">>, value |-> 255],
       [text |-> <<"6", "4">>, value |-> 100],
       [text |-> <<"0", "0">>, value |-> 0],
       [text |-> <<"8", "3">>, value |-> 131],
       [text |-> <<"a", "B">>, value |-> 171],
       [text |-> <<"7", "f">>, value |-> 127] >>

\* The text of the first k data bytes.
RECURSIVE SerialData(_)
SerialData(k) ==
    IF k = 0 THEN <<>> ELSE SerialData(k - 1) \o SerialBytes[k].text

\* The line CAN:ID:LEN:DATA with k data bytes.
SerialLine(id, len, k) ==
    CanPrefix \o id.text \o <<":", HexUpper[len + 1], ":">> \o SerialData(k)

\* Well-formed lines: identifier 102 with every length 0..8 and every
\* number k <= length of data bytes, the other identifiers with as many
\* data bytes as the length says.
WellFormed ==
    { [kind |-> "frame", id |-> id, len |-> x[1], k |-> x[2],
       chars |-> SerialLine(id, x[1], x[2]) \o <<"\n">>] :
          id \in {i \in SerialIds : i.value = 258},
          x \in {y \in (0..8) \X (0..8) : y[2] <= y[1]} }
    \cup { [kind |-> "frame", id |-> id, len |-> len, k |-> len,
            chars |-> SerialLine(id, len, len) \o <<"\n">>] :
               id \in SerialIds, len \in 0..8 }

\* Lines with a malformed prefix, identifier or length field.
MalformedLines ==
    { \* CAN102:2:E803 (no colon after CAN)
      <<"C", "A", "N", "1", "0", "2", ":", "2", ":", "E", "8", "0", "3">>,
      \* CAM:102:2:E803 (wrong prefix)
      <<"C", "A", "M", ":", "1", "0", "2", ":", "2", ":", "E", "8", "0",
        "3">>,
      \* can:102:2:E803 (prefix in lower case)
      <<"c", "a", "n", ":", "1", "0", "2", ":", "2", ":", "E", "8", "0",
        "3">>,
      \*  CAN:102:2:E803 (blank before the prefix)
      <<" ", "C", "A", "N", ":", "1", "0", "2", ":", "2", ":", "E", "8",
        "0", "3">>,
      \* CAN::2:E803 (empty identifier)
      <<"C", "A", "N", ":", ":", "2", ":", "E", "8", "0", "3">>,
      \* CAN:G02:2:E803 (identifier without a hex digit)
      <<"C", "A", "N", ":", "G", "0", "2", ":", "2", ":", "E", "8", "0",
        "3">>,
      \* CAN:1G2:2:E803 (identifier ended by G)
      <<"C", "A", "N", ":", "1", "G", "2", ":", "2", ":", "E", "8", "0",
        "3">>,
      \* CAN:102 (identifier not terminated)
      <<"C", "A", "N", ":", "1", "0", "2">>,
      \* CAN:102;2:E803 (identifier ended by a semicolon)
      <<"C", "A", "N", ":", "1", "0", "2", ";", "2", ":", "E", "8", "0",
        "3">>,
      \* CAN:102:9:AA (length digit 9)
      <<"C", "A", "N", ":", "1", "0", "2", ":", "9", ":", "A", "A">>,
      \* CAN:102:A:AA (length digit A)
      <<"C", "A", "N", ":", "1", "0", "2", ":", "A", ":", "A", "A">>,
      \* CAN:102::E803 (empty length)
      <<"C", "A", "N", ":", "1", "0", "2", ":", ":", "E", "8", "0", "3">>,
      \* CAN:102:10:E803 (two length digits)
      <<"C", "A", "N", ":", "1", "0", "2", ":", "1", "0", ":", "E", "8",
        "0", "3">>,
      \* CAN:102:2E803 (no colon after the length)
      <<"C", "A", "N", ":", "1", "0", "2", ":", "2", "E", "8", "0", "3">>,
      \* CAN:102:2 (line ends after the length)
      <<"C", "A", "N", ":", "1", "0", "2", ":", "2">>,
      \* CAN: (prefix alone)
      <<"C", "A", "N", ":">> }

\* Lines that do not start with the prefix.
ForeignLines ==
    { \* HELLO
      <<"H", "E", "L", "L", "O">>,
      \* RPM:1000
      <<"R", "P", "M", ":", "1", "0", "0", "0">>,
      \* 102:2:E803 (no prefix)
      <<"1", "0", "2", ":", "2", ":", "E", "8", "0", "3">>,
      \* HI
      <<"H", "I">>,
      \* CAN (three characters)
      <<"C", "A", "N">>,
      \* STOP (four characters)
      <<"S", "T", "O", "P">> }

\* Lines that start well and differ from the format in the identifier's
\* spelling or in the data.
OddLines ==
    { \* CAN: 102:2:E803 (blank before the identifier)
      <<"C", "A", "N", ":", " ", "1", "0", "2", ":", "2", ":", "E", "8",
        "0", "3">>,
      \* CAN:+102:2:E803 (plus sign)
      <<"C", "A", "N", ":", "+", "1", "0", "2", ":", "2", ":", "E", "8",
        "0", "3">>,
      \* CAN:0x102:2:E803 (0x before the identifier)
      <<"C", "A", "N", ":", "0", "x", "1", "0", "2", ":", "2", ":", "E",
        "8", "0", "3">>,
      \* CAN:102:2:E80 (odd number of hex digits)
      <<"C", "A", "N", ":", "1", "0", "2", ":", "2", ":", "E", "8", "0">>,
      \* CAN:102:2:E803FF (more bytes than the length)
      <<"C", "A", "N", ":", "1", "0", "2", ":", "2", ":", "E", "8", "0",
        "3", "F", "F">>,
      \* CAN:102:8:E803FFFF64008312AB (nine bytes)
      <<"C", "A", "N", ":", "1", "0", "2", ":", "8", ":", "E", "8", "0",
        "3", "F", "F", "F", "F", "6", "4", "0", "0", "8", "3", "1", "2",
        "A", "B">>,
      \* CAN:102:2:ZZ (data that is not hex)
      <<"C", "A", "N", ":", "1", "0", "2", ":", "2", ":", "Z", "Z">>,
      \* CAN:102:2:E8 03 (blank in the data)
      <<"C", "A", "N", ":", "1", "0", "2", ":", "2", ":", "E", "8", " ",
        "0", "3">> }

\* A line of `kind` as it arrives, terminated by a newline.
Arriving(kind, lines) ==
    { [kind |-> kind, id |-> <<>>, len |-> 0, k |-> 0,
       chars |-> line \o <<"\n">>] : line \in lines }

\* n copies of the line CAN:102:0: one after the other.
RECURSIVE Burst(_)
Burst(n) ==
    IF n = 0 THEN <<>>
    ELSE Burst(n - 1) \o CanPrefix \o <<"1", "0", "2", ":", "0", ":", "\n">>

\* Several lines arriving during one call, a line ended by CR LF, a line
\* whose end has not arrived yet, and the end of that line.
Streams ==
    { [kind |-> "burst", id |-> <<>>, len |-> 0, k |-> n, chars |-> Burst(n)] :
          n \in 2..MaxBurst }
    \cup { [kind |-> "mixed", id |-> <<>>, len |-> 0, k |-> 0,
            chars |-> <<"H", "E", "L", "L", "O", "\n", "C", "A", "N", ":",
                       "1", "0", "2", ":", "2", ":", "E", "8", "0", "3",
                       "\n">>],
           [kind |-> "mixed", id |-> <<>>, len |-> 0, k |-> 0,
            chars |-> <<"C", "A", "N", ":", "1", "0", "2", ":", "9", ":",
                       "A", "A", "\n", "C", "A", "N", ":", "1", "0", "2",
                       ":", "2", ":", "E", "8", "0", "3", "\n">>],
           [kind |-> "crlf", id |-> <<>>, len |-> 0, k |-> 0,
            chars |-> <<"C", "A", "N", ":", "1", "0", "2", ":", "2", ":",
                       "E", "8", "0", "3", "\r", "\n">>],
           [kind |-> "partial", id |-> <<>>, len |-> 0, k |-> 0,
            chars |-> <<"C", "A", "N", ":", "1", "0", "2", ":", "2", ":",
                       "E", "8">>],
           [kind |-> "rest", id |-> <<>>, len |-> 0, k |-> 0,
            chars |-> <<"0", "3", "\n">>] }

\* What follows the last whole data byte of a line: nothing, an odd hex
\* digit, or one more byte pair.
DataTails == {<<>>, <<"6">>, <<"A", "B">>}

\* Lines CAN:5F0:LEN:DATA whose data field is longer than LEN says: k
\* bytes with k >= LEN, followed by one of the tails.
ExcessLines ==
    { [kind |-> "excess", id |-> id, len |-> x[1], k |-> x[2],
       chars |-> SerialLine(id, x[1], x[2]) \o x[3] \o <<"\n">>] :
          id \in {i \in SerialIds : i.value = ID_RPM_TPS},
          x \in {y \in (0..8) \X (0..8) \X DataTails :
                    y[2] >= y[1] /\ ~(y[2] = y[1] /\ y[3] = <<>>)} }

\* Everything the serial port delivers during one call in the model.
SerialInputs ==
    WellFormed
    \cup ExcessLines
    \cup Arriving("malformed", MalformedLines)
    \cup Arriving("foreign", ForeignLines)
    \cup Arriving("odd", OddLines)
    \cup Streams

\* What the uninitialised msg.data of processSerialCanBridge may hold.
StackBytes == {ZeroData, <<170, 170, 170, 170, 170, 170, 170, 170>>}

---------------------------------------------------------------------------
(* processSerialCanBridge *)

\* What serialBuffer holds after the characters chars were read into it:
\* a character is stored while serialBufferIndex < sizeof(serialBuffer) - 1
\* and dropped otherwise.
Buffered(buf, chars) ==
    SubSeq(buf \o chars, 1, Min(Len(buf) + Len(chars), SERIAL_BUFFER_SIZE - 1))

\* The while (Serial.available()) loop of processSerialCanBridge, one line
\* terminator per step: input is what Serial.read() returns until
\* Serial.available() is 0, buf is serialBuffer[0..serialBufferIndex-1].
\* lines records, for every line the loop completed, its text, the frame
\* handed to processFrame (NoFrame if none was) and what was printed about
\* it (ENABLE_DEBUG_SERIAL is true).
RECURSIVE BridgeLoop(_, _, _, _, _, _, _)
BridgeLoop(input, buf, g, lines, stack, t, protocol) ==
    LET ends == {i \in 1..Len(input) : input[i] \in {"\n", "\r"}}
    IN
    IF ends = {}
    THEN [g |-> g, serialBuffer |-> Buffered(buf, input), lines |-> lines]
    ELSE
    LET end == CHOOSE i \in ends : \A j \in ends : i <= j
        text == Buffered(buf, SubSeq(input, 1, end - 1))
        rest == SubSeq(input, end + 1, Len(input))
    IN
    IF Len(text) > 0 THEN
        LET p == parseSerialCanFrame(text, stack)
        IN IF p.ok
           THEN BridgeLoop(rest, <<>>,
                    processFrame(p.msg, g, t, protocol),
                    Append(lines, [text |-> text, msg |-> p.msg,
                                   report |-> "OK:"]),
                    stack, t, protocol)
           ELSE BridgeLoop(rest, <<>>, g,
                    Append(lines, [text |-> text, msg |-> NoFrame,
                                   report |-> IF Len(text) > 4
                                              THEN "ERR:PARSE:"
                                              ELSE ""]),
                    stack, t, protocol)
    ELSE BridgeLoop(rest, text, g, lines, stack, t, protocol)

\* The number of lines of the sequence lines handed to processFrame.
FramesOf(lines) ==
    Cardinality({i \in 1..Len(lines) : lines[i].msg # NoFrame})

\* A bridge that is gated on the status as the router is: outside RUNNING
\* it reads nothing.
ProcessSerialCanBridge_GatedOnRunning(sent, stack) ==
    /\ pc = "loop"
    /\ twai.bridgeCalls < MaxBridgeCalls
    /\ twai.bridgeCalls = 0 \/ serialBuffer # <<>>
    /\ LET r == BridgeLoop(IF RouterOpen(canBusStatus) THEN sent.chars
                           ELSE <<>>,
                           serialBuffer, Ingest, <<>>, stack, now,
                           CAN_PROTOCOL)
       IN /\ state' = r.g.state
          /\ frameLog' = r.g.frameLog
          /\ frameLogIndex' = r.g.frameLogIndex
          /\ lastCanMessageTime' = r.g.lastCanMessageTime
          /\ serialBuffer' = r.serialBuffer
          /\ call' = [op |-> "processSerialCanBridge", sent |-> sent,
                      before |-> Ingest, bufferBefore |-> serialBuffer,
                      lines |-> r.lines, frames |-> FramesOf(r.lines)]
    /\ twai' = [twai EXCEPT !.bridgeCalls = @ + 1]
    /\ UNCHANGED <<pc, now, canBusStatus, canErrorMessage, lastCanHealthCheck,
                   canRestartAttemptTime, CAN_PROTOCOL>>
    /\ UNCHANGED mainGlobals
    /\ UNCHANGED webGlobals

\* processSerialCanBridge(state) while the serial port delivers sent.chars:
\* the record of the call keeps what arrived, the globals and the buffer
\* the call found, and the lines it completed. A call that finds the
\* buffer empty is in the position of the first call of the run, so the
\* run goes on beyond its first call only while a line is unfinished.
ProcessSerialCanBridge(sent, stack) ==
    /\ pc = "loop"
    /\ twai.bridgeCalls < MaxBridgeCalls
    /\ twai.bridgeCalls = 0 \/ serialBuffer # <<>>
    /\ LET r == BridgeLoop(sent.chars, serialBuffer, Ingest, <<>>, stack,
                           now, CAN_PROTOCOL)
       IN /\ state' = r.g.state
          /\ frameLog' = r.g.frameLog
          /\ frameLogIndex' = r.g.frameLogIndex
          /\ lastCanMessageTime' = r.g.lastCanMessageTime
          /\ serialBuffer' = r.serialBuffer
          /\ call' = [op |-> "processSerialCanBridge", sent |-> sent,
                      before |-> Ingest, bufferBefore |-> serialBuffer,
                      lines |-> r.lines, frames |-> FramesOf(r.lines)]
    /\ twai' = [twai EXCEPT !.bridgeCalls = @ + 1]
    /\ UNCHANGED <<pc, now, canBusStatus, canErrorMessage, lastCanHealthCheck,
                   canRestartAttemptTime, CAN_PROTOCOL>>
    /\ UNCHANGED mainGlobals
    /\ UNCHANGED webGlobals

\* The uptime moves on by one clock step.
SerialTick ==
    /\ pc = "loop"
    /\ now = 0
    /\ now' = Units(TickMs)
    /\ UNCHANGED <<pc, canBusStatus, canErrorMessage, lastCanMessageTime,
                   lastCanHealthCheck, canRestartAttemptTime, state, frameLog,
                   frameLogIndex, twai, call, CAN_PROTOCOL>>
    /\ UNCHANGED mainGlobals
    /\ UNCHANGED bridgeGlobals
    /\ UNCHANGED webGlobals

InitSerial ==
    /\ pc = "setup"
    /\ now = 0
    /\ canBusStatus = "STOPPED"
    /\ canErrorMessage = ""
    /\ lastCanMessageTime = 0
    /\ lastCanHealthCheck = 0
    /\ canRestartAttemptTime = 0
    /\ state = InitialVehicleState
    /\ frameLog = EmptyFrameLog(LogCapacity)
    /\ frameLogIndex = 0
    /\ twai = [installCalls |-> 0, installed |-> FALSE, startCalls |-> 0,
               started |-> FALSE, recoveryCalls |-> 0, bridgeCalls |-> 0]
    /\ call = NoCall
    /\ CAN_PROTOCOL = 1
    /\ dataAge = InitialDataAge
    /\ validationStats = InitialValidationStats
    /\ serialBuffer = <<>>
    /\ userConfig = InitialUserConfig

NextSerial ==
    \/ ConfigureCanBegin
    \/ \E ok \in BOOLEAN : ConfigureCanInstall(ok)
    \/ \E ok \in BOOLEAN : ConfigureCanStart(ok)
    \/ SerialTick
    \/ \E sent \in SerialInputs, stack \in StackBytes :
           ProcessSerialCanBridge(sent, stack)

SpecSerial == InitSerial /\ [][NextSerial]_vars

---------------------------------------------------------------------------
(* The serial bridge beside the link life cycle *)

\* The line the serial port delivers in this model: CAN:5F0:4: with four
\* data bytes, the rpm of the Link rpm/tps frame.
BridgeLinkInputs ==
    LET id == [text |-> <<"5", "F", "0">>, value |-> ID_RPM_TPS]
    IN { [kind |-> "frame", id |-> id, len |-> 4, k |-> 4,
          chars |-> SerialLine(id, 4, 4) \o <<"\n">>] }

\* What twai_get_status_info reports in this model: every transport
\* state, with error counters below the threshold.
BridgeLinkInfos ==
    {info \in StatusInfos :
        info.rx_error_counter = 127 /\ info.tx_error_counter = 127}

NextBridgeLink ==
    \/ ConfigureCanBegin
    \/ \E ok \in BOOLEAN : ConfigureCanInstall(ok)
    \/ \E ok \in BOOLEAN : ConfigureCanStart(ok)
    \/ \E queryOk \in BOOLEAN, info \in BridgeLinkInfos :
           MonitorCanHealth(queryOk, info)
    \/ \E ok \in BOOLEAN : AttemptCanRecovery(ok)
    \/ \E sent \in BridgeLinkInputs :
           ProcessSerialCanBridge(sent, ZeroData)
    \/ Tick

\* The link life cycle and the bridge of the modular firmware built with
\* ENABLE_SERIAL_CAN_BRIDGE.
SpecBridgeLink == Init /\ [][NextBridgeLink]_vars

---------------------------------------------------------------------------
(* The link life cycle around the wraparound of millis() *)

\* The model follows the device in steps of half a poll interval, from
\* three steps before the uptime counter wraps.
WrapStep == Units(CAN_HEALTH_CHECK_INTERVAL) \div 2

WrapStart == UptimeModulus - 3 * WrapStep

\* 49.7 days less 7.5 s go by in which loop() calls neither gate.
WrapLongRun ==
    /\ pc = "loop"
    /\ twai.uptime = 0
    /\ now' = WrapStart % UptimeModulus
    /\ twai' = [twai EXCEPT !.uptime = WrapStart]
    /\ UNCHANGED <<pc, canBusStatus, canErrorMessage, lastCanMessageTime,
                   lastCanHealthCheck, canRestartAttemptTime, state, frameLog,
                   frameLogIndex, call, CAN_PROTOCOL>>
    /\ UNCHANGED mainGlobals
    /\ UNCHANGED bridgeGlobals
    /\ UNCHANGED webGlobals

\* millis() advances by half a poll interval and wraps at 2^32 ms.
WrapTick ==
    /\ pc = "loop"
    /\ twai.uptime >= WrapStart
    /\ twai.uptime < WrapStart + MaxWrapTicks * WrapStep
    /\ now' = (now + WrapStep) % UptimeModulus
    /\ twai' = [twai EXCEPT !.uptime = @ + WrapStep]
    /\ UNCHANGED <<pc, canBusStatus, canErrorMessage, lastCanMessageTime,
                   lastCanHealthCheck, canRestartAttemptTime, state, frameLog,
                   frameLogIndex, call, CAN_PROTOCOL>>
    /\ UNCHANGED mainGlobals
    /\ UNCHANGED bridgeGlobals
    /\ UNCHANGED webGlobals

NextWrap ==
    \/ ConfigureCanBegin
    \/ \E ok \in BOOLEAN : ConfigureCanInstall(ok)
    \/ \E ok \in BOOLEAN : ConfigureCanStart(ok)
    \/ \E queryOk \in BOOLEAN, info \in BridgeLinkInfos :
           MonitorCanHealth(queryOk, info)
    \/ \E ok \in BOOLEAN : AttemptCanRecovery(ok)
    \/ WrapLongRun
    \/ WrapTick

\* The modular firmware on a device that stays up past 49.7 days.
SpecWrap == Init /\ [][NextWrap]_vars

---------------------------------------------------------------------------
(* The running device: the link, the router, the web server and the
   renderer side by side (ENABLE_DEMO_MODE false) *)

\* Number of TickMs steps the uptime clock advances in the device model.
MaxDeviceTicks == 1
\* The maxMessages argument of the device's router calls.
DeviceMaxMessages == 1

LED_COUNT == 60

\* server.hasArg(name) is false.
NoArg == -1
\* server.arg("redline").toInt() and server.arg("brightness").toInt(), on
\* either side of the limits the handler tests, and a redline beyond the
\* range of uint16_t.
RedlineArgs == {999, 1000, 12000, 12001, 66536}
BrightnessArgs == {9, 10}
HttpMethods == {"HTTP_GET", "HTTP_POST"}

\* The conversions of a long to uint16_t and to uint8_t.
Uint16(v) == v % 65536
Uint8(v) == v % 256

\* The redline and brightness tests of handleApiConfig.
RedlineAccepted(arg) ==
    arg # NoArg /\ Uint16(arg) >= 1000 /\ Uint16(arg) <= 12000
BrightnessAccepted(arg) ==
    arg # NoArg /\ Uint8(arg) >= 10 /\ Uint8(arg) <= 255

\* handleApiConfig: GET prints userConfig; POST stores an accepted redline
\* in userConfig and in state.rpmRedline and rebuilds the lookup tables,
\* stores an accepted brightness, saves the configuration when anything was
\* updated and answers 200, else 400.
HandleApiConfig(method, redline, brightness) ==
    /\ pc = "loop"
    /\ IF method = "HTTP_GET"
       THEN /\ call' = [op |-> "handleApiConfig", method |-> method,
                        response |-> 200, saved |-> FALSE,
                        tablesInit |-> NoArg,
                        rpm_redline |-> userConfig.rpmRedline,
                        led_brightness |-> userConfig.ledBrightness]
            /\ UNCHANGED <<state, userConfig>>
       ELSE LET updated == RedlineAccepted(redline)
                              \/ BrightnessAccepted(brightness)
            IN /\ state' = IF RedlineAccepted(redline)
                           THEN [state EXCEPT !.rpmRedline = Uint16(redline)]
                           ELSE state
               /\ userConfig' =
                      [rpmRedline |-> IF RedlineAccepted(redline)
                                      THEN Uint16(redline)
                                      ELSE userConfig.rpmRedline,
                       ledBrightness |-> IF BrightnessAccepted(brightness)
                                         THEN Uint8(brightness)
                                         ELSE userConfig.ledBrightness]
               /\ call' = [op |-> "handleApiConfig", method |-> method,
                           response |-> IF updated THEN 200 ELSE 400,
                           saved |-> updated,
                           tablesInit |-> IF RedlineAccepted(redline)
                                          THEN Uint16(redline) ELSE NoArg,
                           rpm_redline |-> NoArg, led_brightness |-> NoArg]
    /\ UNCHANGED <<pc, now, canBusStatus, canErrorMessage, lastCanMessageTime,
                   lastCanHealthCheck, canRestartAttemptTime, frameLog,
                   frameLogIndex, twai, CAN_PROTOCOL>>
    /\ UNCHANGED mainGlobals
    /\ UNCHANGED bridgeGlobals

\* handleApiState: the report of the vehicle state.
HandleApiState ==
    /\ pc = "loop"
    /\ call' = [op |-> "handleApiState", rpm |-> state.rpm,
                throttle |-> state.throttlePercent,
                brake |-> state.brakePercent, coolant10x |-> state.coolant10x,
                oilPressure10kPa |-> state.oilPressure10kPa,
                rev_limiter |-> state.revLimiter,
                als_active |-> state.alsActive,
                ignition_on |-> state.ignitionOn]
    /\ UNCHANGED <<pc, now, canBusStatus, canErrorMessage, lastCanMessageTime,
                   lastCanHealthCheck, canRestartAttemptTime, state, frameLog,
                   frameLogIndex, twai, CAN_PROTOCOL>>
    /\ UNCHANGED mainGlobals
    /\ UNCHANGED bridgeGlobals
    /\ UNCHANGED webGlobals

\* drawRpmGradient: the number of LEDs lit and the redline overlay (nothing
\* is drawn when the redline is 0).
DrawRpmGradient ==
    /\ pc = "loop"
    /\ call' = [op |-> "drawRpmGradient",
                lit |-> IF state.rpmRedline = 0 THEN 0
                        ELSE Min((state.rpm * LED_COUNT
                                    + state.rpmRedline \div 2)
                                   \div state.rpmRedline,
                                 LED_COUNT + LED_COUNT \div 5),
                pastRedline |-> state.rpmRedline # 0
                                  /\ state.rpm >= state.rpmRedline]
    /\ UNCHANGED <<pc, now, canBusStatus, canErrorMessage, lastCanMessageTime,
                   lastCanHealthCheck, canRestartAttemptTime, state, frameLog,
                   frameLogIndex, twai, CAN_PROTOCOL>>
    /\ UNCHANGED mainGlobals
    /\ UNCHANGED bridgeGlobals
    /\ UNCHANGED webGlobals

DeviceTick ==
    /\ pc = "loop"
    /\ now < MaxDeviceTicks * Units(TickMs)
    /\ now' = (now + Units(TickMs)) % UptimeModulus
    /\ twai' = [twai EXCEPT !.uptime = @ + Units(TickMs)]
    /\ UNCHANGED <<pc, canBusStatus, canErrorMessage, lastCanMessageTime,
                   lastCanHealthCheck, canRestartAttemptTime, state, frameLog,
                   frameLogIndex, call, CAN_PROTOCOL>>
    /\ UNCHANGED mainGlobals
    /\ UNCHANGED bridgeGlobals
    /\ UNCHANGED webGlobals

NextDevice ==
    \/ ConfigureCanBegin
    \/ \E ok \in BOOLEAN : ConfigureCanInstall(ok)
    \/ \E ok \in BOOLEAN : ConfigureCanStart(ok)
    \/ \E queryOk \in BOOLEAN, info \in StatusInfos :
           MonitorCanHealth(queryOk, info)
    \/ \E ok \in BOOLEAN : AttemptCanRecovery(ok)
    \/ \E rx \in RxOutcomes(DeviceMaxMessages) :
           ReceiveAndProcessCan(DeviceMaxMessages, rx)
    \/ \E method \in HttpMethods, redline \in RedlineArgs \cup {NoArg},
          brightness \in BrightnessArgs \cup {NoArg} :
           HandleApiConfig(method, redline, brightness)
    \/ HandleApiState
    \/ DrawRpmGradient
    \/ DeviceTick

\* The device starts as the modular firmware does.
SpecDevice == Init /\ [][NextDevice]_vars

---------------------------------------------------------------------------
(* Steps, as seen from a pair of states *)

\* A step that is an invocation of monitorCanHealth (can_handler.cpp).
MonitorStep == pc = "loop" /\ now' = now /\ call'.op = "monitorCanHealth"

\* A step that is an invocation of receiveAndProcessCan.
RouterStep == pc = "loop" /\ now' = now /\ call'.op = "receiveAndProcessCan"

\* A step in which twai_initiate_recovery is called.
RecoveryCallStep == twai'.recoveryCalls # twai.recoveryCalls

\* A step that is an invocation of processSerialCanBridge.
BridgeStep == twai'.bridgeCalls # twai.bridgeCalls

\* The monitorCanHealth call and the receive loop of one loop() of main.cpp.
MainMonitorStep == pc = "loop" /\ pc' = "drain"
MainDrainStep == pc = "drain" /\ pc' = "loop"

\* The last handler was a router invocation in which every twai_receive
\* delivered a frame: the transport always had one available.
FloodedRouterCall ==
    /\ call.op = "receiveAndProcessCan"
    /\ call.pre = "RUNNING"
    /\ call.receives = call.messagesProcessed

\* The query of the last monitor step succeeded and reported an error
\* counter at or above the error-passive threshold.
SawErrorPassiveCounters(c) ==
    /\ c.queried
    /\ c.busState # "error"
    /\ (c.rx_error_counter >= ERROR_PASSIVE_THRESHOLD
          \/ c.tx_error_counter >= ERROR_PASSIVE_THRESHOLD)

---------------------------------------------------------------------------
(* C1 *)

\* C1 (as claimed): a health poll that finds the transport in bus-off while
\* the status is RUNNING sets BUS_OFF, and the recovery attempt that follows
\* at once issues exactly one twai_initiate_recovery call and sets RECOVERING.
C1_BusOffThenRecovering ==
    [][ /\ (MonitorStep /\ call'.queried
              /\ call'.busState = "TWAI_STATE_BUS_OFF")
           => (canBusStatus = "RUNNING" /\ canBusStatus' = "BUS_OFF"
               /\ pc' = "recovery")
        /\ (pc = "recovery")
           => (canBusStatus = "BUS_OFF" /\ canBusStatus' = "RECOVERING"
               /\ twai'.recoveryCalls = twai.recoveryCalls + 1) ]_vars

---------------------------------------------------------------------------
(* C2 *)

\* C2 (as claimed): in RECOVERING, an invocation of the monitor whose poll
\* is due queries the transport, and when the query shows neither bus-off
\* nor an error the status goes back to RUNNING.
C2_RecoveringReturnsToRunning ==
    [][ (MonitorStep /\ canBusStatus = "RECOVERING"
           /\ HealthCheckDue(now, lastCanHealthCheck))
        => /\ call'.queried
           /\ (call'.busState \notin {"TWAI_STATE_BUS_OFF", "error"}
                 => canBusStatus' = "RUNNING") ]_vars

---------------------------------------------------------------------------
(* C3 *)

---------------------------------------------------------------------------
(* C4 *)

\* C4 (as claimed): with the status RUNNING and a transport that always has
\* a frame, one router invocation decodes exactly maxMessages frames, for
\* any maxMessages.
C4_ExactlyMaxFrames ==
    FloodedRouterCall => call.messagesProcessed = call.maxMessages

\* C4 (amended): a router invocation never decodes more than
\* max(maxMessages, 1) frames, and decodes exactly that many when the
\* transport always has a frame: the first, blocking receive is made and
\* its frame decoded even when maxMessages is 0.
C4_BoundedBatch ==
    /\ call.op = "receiveAndProcessCan"
         => /\ call.messagesProcessed <= Max(call.maxMessages, 1)
            /\ call.receives <= call.maxMessages + 1
    /\ FloodedRouterCall
         => call.messagesProcessed = Max(call.maxMessages, 1)

\* A flooded invocation that stopped at the largest batch size.
C4_Witness ==
    /\ FloodedRouterCall
    /\ call.maxMessages = MaxMessagesArg
    /\ call.messagesProcessed = MaxMessagesArg
    /\ lastCanMessageTime = now

---------------------------------------------------------------------------
(* C5 *)

\* C5 (as claimed, can_handler.cpp): a health poll made while the status is
\* RUNNING that reads an rx or tx error counter at or above 128 sets the
\* status to ERROR_PASSIVE.
C5_ErrorPassiveAtThreshold ==
    [][ (MonitorStep /\ canBusStatus = "RUNNING"
           /\ SawErrorPassiveCounters(call'))
        => canBusStatus' = "ERROR_PASSIVE" ]_vars

\* C5 (main.cpp): the same poll of the monolithic firmware sets
\* ERROR_PASSIVE, with the counters in the message, unless the transport
\* state it reads is bus-off, which is tested first.
C5_MainErrorPassiveUnlessBusOff ==
    [][ (MainMonitorStep /\ canBusStatus = "RUNNING"
           /\ SawErrorPassiveCounters(call'))
        => IF call'.busState = "TWAI_STATE_BUS_OFF"
           THEN canBusStatus' = "BUS_OFF"
           ELSE /\ canBusStatus' = "ERROR_PASSIVE"
                /\ canErrorMessage' = MsgErrorPassive(call'.rx_error_counter,
                                                      call'.tx_error_counter) ]_vars

\* main.cpp went to ERROR_PASSIVE on a tx counter of exactly 128.
C5_MainWitness ==
    /\ call.op = "monitorCanHealth"
    /\ call.pre = "RUNNING"
    /\ call.busState = "TWAI_STATE_RUNNING"
    /\ call.rx_error_counter = 127
    /\ call.tx_error_counter = 128
    /\ canBusStatus = "ERROR_PASSIVE"

---------------------------------------------------------------------------
(* C6 *)

\* C6 (as claimed, main.cpp): a monitor call made while the status is
\* ERROR_PASSIVE queries the transport, and when both error counters it
\* reads are below 128 the status goes back to RUNNING.
C6_ErrorPassiveReturnsToRunning ==
    [][ (MainMonitorStep /\ canBusStatus = "ERROR_PASSIVE")
        => /\ call'.queried
           /\ (/\ call'.busState # "error"
               /\ call'.rx_error_counter < ERROR_PASSIVE_THRESHOLD
               /\ call'.tx_error_counter < ERROR_PASSIVE_THRESHOLD)
              => canBusStatus' = "RUNNING" ]_vars

---------------------------------------------------------------------------
(* C7 *)

\* C7: once the status is FAILED no step changes it or the message, and no
\* step calls twai_initiate_recovery.
C7_FailedIsTerminal ==
    [][ canBusStatus = "FAILED"
        => /\ canBusStatus' = "FAILED"
           /\ canErrorMessage' = canErrorMessage
           /\ twai'.recoveryCalls = twai.recoveryCalls ]_vars

\* The monitor was invoked with its poll due and the cooldown elapsed while
\* the status was FAILED.
C7_Witness ==
    /\ canBusStatus = "FAILED"
    /\ call.op = "monitorCanHealth"
    /\ call.pre = "FAILED"
    /\ HealthCheckDue(now, lastCanHealthCheck)
    /\ RecoveryDue(now, canRestartAttemptTime)

---------------------------------------------------------------------------
(* C8 *)

\* C8: when configureCan has returned, the status is RUNNING exactly if
\* twai_driver_install and twai_start both succeeded and FAILED with a
\* non-empty message otherwise; twai_start is never called after a failed
\* install. (RUNNING gives way to BUS_OFF/RECOVERING only after a handler
\* has run.)
C8_StartupOutcome ==
    /\ (pc = "loop" /\ call = NoCall)
         => (canBusStatus = "RUNNING" <=> (twai.installed /\ twai.started))
    /\ pc = "loop"
         => /\ (canBusStatus = "FAILED" <=> ~(twai.installed /\ twai.started))
            /\ (canBusStatus = "FAILED" => canErrorMessage # "")
            /\ twai.installCalls = 1
    /\ ~twai.installed => twai.startCalls = 0

\* configureCan returned after a failed install.
C8_Witness ==
    /\ pc = "loop"
    /\ call = NoCall
    /\ twai.installCalls = 1
    /\ ~twai.installed
    /\ twai.startCalls = 0
    /\ canBusStatus = "FAILED"
    /\ canErrorMessage = MsgInstallFailed

\* C8 (main.cpp): the same outcome of the monolithic configureCan, whose
\* two failure statuses are FAILED_DRIVER_INSTALL and FAILED_START.
C8_MainStartupOutcome ==
    /\ (pc # "setup" /\ call = NoCall)
         => (canBusStatus = "RUNNING" <=> (twai.installed /\ twai.started))
    /\ pc # "setup"
         => /\ (canBusStatus = "FAILED_DRIVER_INSTALL" <=> ~twai.installed)
            /\ (canBusStatus = "FAILED_START"
                  <=> (twai.installed /\ ~twai.started))
            /\ (~(twai.installed /\ twai.started) => canErrorMessage # "")
    /\ ~twai.installed => twai.startCalls = 0

---------------------------------------------------------------------------
(* C9 *)

\* The edges of the specified link-status graph.
SpecifiedEdges ==
    { <<"STOPPED", "RUNNING">>, <<"STOPPED", "FAILED">>,
      <<"RUNNING", "BUS_OFF">>, <<"BUS_OFF", "RECOVERING">>,
      <<"RECOVERING", "RUNNING">>, <<"RUNNING", "ERROR_PASSIVE">>,
      <<"ERROR_PASSIVE", "RUNNING">> }

\* C9 (as claimed): every change of the status is an edge of the specified
\* graph, and the status is RUNNING only once install and start succeeded.
C9_OnlySpecifiedEdges ==
    /\ [][ canBusStatus' # canBusStatus
           => <<canBusStatus, canBusStatus'>> \in SpecifiedEdges ]_vars
    /\ [](canBusStatus = "RUNNING" => (twai.installed /\ twai.started))

---------------------------------------------------------------------------
(* C10 *)

\* C10 (as claimed, main.cpp): the receive loop of a loop() iteration
\* entered while the status is not RUNNING makes no twai_receive call and
\* leaves the vehicle state, the frame log, its head, the last-message time
\* and the status unchanged.
C10_MainLoopClosedIsNoOp ==
    [][ (MainDrainStep /\ canBusStatus # "RUNNING")
        => /\ call'.receives = 0
           /\ call'.messagesProcessed = 0
           /\ state' = state
           /\ frameLog' = frameLog
           /\ frameLogIndex' = frameLogIndex
           /\ lastCanMessageTime' = lastCanMessageTime
           /\ canBusStatus' = canBusStatus ]_vars

\* C10 (can_handler.cpp): a receiveAndProcessCan invocation made while the
\* status is not RUNNING returns false, makes no twai_receive call and
\* leaves the vehicle state, the frame log, its index, the last-message
\* time, the status and the message unchanged.
C10_RouterClosedIsNoOp ==
    [][ (RouterStep /\ canBusStatus # "RUNNING")
        => /\ call'.ret = FALSE
           /\ call'.receives = 0
           /\ call'.messagesProcessed = 0
           /\ state' = state
           /\ frameLog' = frameLog
           /\ frameLogIndex' = frameLogIndex
           /\ lastCanMessageTime' = lastCanMessageTime
           /\ canBusStatus' = canBusStatus
           /\ canErrorMessage' = canErrorMessage ]_vars

\* The router was invoked while the link was recovering, after frames had
\* been logged earlier.
C10_Witness ==
    /\ call.op = "receiveAndProcessCan"
    /\ call.pre = "RECOVERING"
    /\ canBusStatus = "RECOVERING"
    /\ call.ret = FALSE
    /\ lastCanMessageTime > 0

---------------------------------------------------------------------------
(* C11 *)

\* The last handler was a router invocation that passed the status guard.
OpenRouterCall == call.op = "receiveAndProcessCan" /\ call.pre = "RUNNING"

\* The twai_receive calls of the last router invocation after its first,
\* blocking one: all of them are made with a timeout of 0.
NonBlockingReceives == call.receives - 1

\* C11 (as claimed): a router invocation makes exactly one blocking receive
\* first and then at most maxMessages - 1 non-blocking receives (none when
\* maxMessages is 0), whatever the blocking receive returned.
C11_OneBlockingThenMaxMinusOne ==
    OpenRouterCall
    => /\ call.receives >= 1
       /\ NonBlockingReceives <= Max(call.maxMessages - 1, 0)

\* C11 (amended): a router invocation makes exactly one blocking receive
\* first; the non-blocking receives that follow are at most maxMessages - 1
\* (none when maxMessages is 0) when the blocking receive delivered a frame,
\* and at most maxMessages when it did not.
C11_OneBlockingThenBounded ==
    OpenRouterCall
    => /\ call.receives >= 1
       /\ call.firstOk => NonBlockingReceives <= Max(call.maxMessages - 1, 0)
       /\ ~call.firstOk => NonBlockingReceives <= call.maxMessages

\* The blocking receive timed out and every one of the maxMessages
\* non-blocking receives that followed delivered a frame.
C11_Witness ==
    /\ OpenRouterCall
    /\ ~call.firstOk
    /\ call.maxMessages = MaxMessagesArg
    /\ NonBlockingReceives = MaxMessagesArg
    /\ call.messagesProcessed = MaxMessagesArg

---------------------------------------------------------------------------
(* C12 *)

\* C12: in a router invocation, a non-blocking receive that reports no data
\* (or an error) is the last receive of the invocation, and the frames
\* decoded are those delivered before it: a frame the transport would have
\* delivered afterwards is not asked for.
C12_StopsAtNoData ==
    OpenRouterCall
    => \A i \in 2..Len(twai.offered) :
           (i <= call.receives /\ twai.offered[i] = NoFrame)
           => /\ call.receives = i
              /\ call.sawNoData
              /\ call.messagesProcessed =
                     Cardinality({j \in 1..(i - 1) : twai.offered[j] # NoFrame})

\* The second receive reported no data while the transport had a frame for
\* a third one: the invocation ended after two receives and one frame.
C12_Witness ==
    /\ OpenRouterCall
    /\ call.maxMessages = 2
    /\ Len(twai.offered) = 3
    /\ twai.offered[1] # NoFrame
    /\ twai.offered[2] = NoFrame
    /\ twai.offered[3] # NoFrame
    /\ call.receives = 2
    /\ call.messagesProcessed = 1
    /\ Len(twai.received) = 1
---------------------------------------------------------------------------
(* C13 *)

---------------------------------------------------------------------------
(* C14 *)

\* C14: a router invocation appends every frame twai_receive returned to
\* the frame log, with the uptime of the invocation as its timestamp and
\* whether or not the active protocol knows the identifier: the write index
\* advances by the number of frames processed, the slots written hold the
\* frames in order (the last FRAME_LOG_SIZE of them), and no other slot
\* changes.
C14_EveryFrameLogged ==
    [][ RouterStep
        => LET new == Processed(twai'.offered, call'.receives)
               k == call'.messagesProcessed
               N == FRAME_LOG_SIZE(frameLog)
               written == {(frameLogIndex + j - 1) % N : j \in 1..k}
           IN /\ k = Len(new)
              /\ Len(twai'.received) = Len(twai.received) + k
              /\ frameLogIndex' = (frameLogIndex + k) % N
              /\ \A j \in 1..k :
                     j > k - N
                     => frameLog'[(frameLogIndex + j - 1) % N]
                            = [timestamp |-> now, message |-> new[j]]
              /\ \A i \in DOMAIN frameLog :
                     i \notin written => frameLog'[i] = frameLog[i] ]_vars

\* A frame of the Custom table was received under the Link protocol after
\* the clock had advanced: it is in the log with its timestamp and the
\* vehicle state is as it was.
C14_Witness ==
    /\ OpenRouterCall
    /\ call.messagesProcessed >= 1
    /\ state = InitialVehicleState
    /\ \E i \in DOMAIN frameLog :
           /\ frameLog[i].message \in ForeignFrames
           /\ frameLog[i].timestamp = Units(TickMs)
           /\ frameLog[i].timestamp = now

---------------------------------------------------------------------------
(* C15 *)

\* C15: the write index stays within 0..FRAME_LOG_SIZE-1; once at least
\* FRAME_LOG_SIZE frames have been inserted, the slots read from the write
\* index onwards, wrapping, are the FRAME_LOG_SIZE most recent entries in
\* insertion order; before that, the slots from 0 are the entries inserted
\* so far, in order, and the others are still zero.
C15_RingHoldsMostRecent ==
    LET h == twai.received
        k == Len(h)
        N == FRAME_LOG_SIZE(frameLog)
    IN /\ frameLogIndex \in 0..(N - 1)
       /\ frameLogIndex = k % N
       /\ k >= N
            => \A j \in 0..(N - 1) :
                   frameLog[(frameLogIndex + j) % N] = h[k - N + 1 + j]
       /\ k < N
            => /\ \A j \in 0..(k - 1) : frameLog[j] = h[j + 1]
               /\ \A j \in k..(N - 1) : frameLog[j] = EmptyFrameLog(N)[j]

\* FRAME_LOG_SIZE + 1 frames were inserted, the first two of them
\* different, at two different uptimes: the oldest one is gone.
C15_Witness ==
    /\ Len(twai.received) = FRAME_LOG_SIZE(frameLog) + 1
    /\ FRAME_LOG_SIZE(frameLog) >= 2
    /\ twai.received[1].message # twai.received[2].message
    /\ twai.received[1].timestamp # twai.received[Len(twai.received)].timestamp
    /\ frameLogIndex = 1
    /\ \A i \in DOMAIN frameLog : frameLog[i] # twai.received[1]

---------------------------------------------------------------------------
(* C14 and C15, main.cpp *)

\* The slot of main.cpp's frame log holds the received frame e: its
\* identifier, its length clamped to 8, that many data bytes and the uptime
\* of the receive.
MainSlotHolds(slot, e) ==
    LET dlc == IF e.message.data_length_code > 8 THEN 8
               ELSE e.message.data_length_code
    IN /\ slot.id = e.message.identifier
       /\ slot.dlc = dlc
       /\ \A b \in 1..dlc : slot.data[b] = e.message.data[b]
       /\ slot.timestampMs = e.timestamp

\* C14 (main.cpp): the receive loop of loop() appends every frame
\* twai_receive returned to the frame log with the uptime of the iteration:
\* the head advances by the number of frames processed and the slots
\* written hold the frames in order.
C14_MainEveryFrameLogged ==
    [][ MainDrainStep
        => LET k == call'.messagesProcessed
               h == twai'.received
               N == FRAME_LOG_SIZE(frameLog)
               written == {(frameLogIndex + j - 1) % N : j \in 1..k}
           IN /\ Len(h) = Len(twai.received) + k
              /\ validationStats'.totalMessagesProcessed
                     = validationStats.totalMessagesProcessed + k
              /\ frameLogIndex' = (frameLogIndex + k) % N
              /\ \A j \in 1..k :
                     j > k - N
                     => /\ MainSlotHolds(frameLog'[(frameLogIndex + j - 1) % N],
                                         h[Len(h) - k + j])
                        /\ h[Len(h) - k + j].timestamp = now
              /\ \A i \in DOMAIN frameLog :
                     i \notin written => frameLog'[i] = frameLog[i] ]_vars

\* C15 (main.cpp): the head stays within 0..FRAME_LOG_SIZE-1, and once
\* FRAME_LOG_SIZE frames have been appended the slots read from the head
\* onwards, wrapping, hold the FRAME_LOG_SIZE most recent frames in
\* insertion order.
C15_MainRingHoldsMostRecent ==
    LET h == twai.received
        k == Len(h)
        N == FRAME_LOG_SIZE(frameLog)
    IN /\ frameLogIndex \in 0..(N - 1)
       /\ frameLogIndex = k % N
       /\ k = validationStats.totalMessagesProcessed
       /\ k >= N
            => \A j \in 0..(N - 1) :
                   MainSlotHolds(frameLog[(frameLogIndex + j) % N],
                                 h[k - N + 1 + j])
       /\ k < N
            => /\ \A j \in 0..(k - 1) : MainSlotHolds(frameLog[j], h[j + 1])
               /\ \A j \in k..(N - 1) : frameLog[j] = MainEmptyFrameLog(N)[j]

\* main.cpp appended one frame more than its log has slots.
C15_MainWitness ==
    /\ Len(twai.received) = FRAME_LOG_SIZE(frameLog) + 1
    /\ twai.received[1].message # twai.received[2].message

---------------------------------------------------------------------------
(* C16 *)

\* The last handler was a router invocation that handed one frame,
\* call.msg, to processFrame and found the vehicle state call.before.
DecodedCall ==
    /\ call.op = "receiveAndProcessCan"
    /\ call.messagesProcessed = 1

\* The last frame decoded has the identifier id, under the protocol
\* protocol, and at least minLength bytes.
Decoded(protocol, id, minLength) ==
    /\ DecodedCall
    /\ CAN_PROTOCOL = protocol
    /\ call.msg.identifier = id
    /\ call.msg.data_length_code >= minLength

\* C16: under each of the three protocols the throttle, brake, handbrake
\* and clutch fields of the vehicle state are always in 0..100 (so that
\* drawThrottleBar indexes its 101-entry table in range), and a Custom
\* frame that carries the raw percentage byte v stores min(v, 100).
C16_PercentagesClamped ==
    /\ state.throttlePercent \in 0..100
    /\ state.brakePercent \in 0..100
    /\ state.handbrakePulled \in 0..100
    /\ state.clutchPercent \in 0..100
    /\ Decoded(0, ID_THROTTLE, 1)
         => state.throttlePercent = Min(Byte(call.msg, 0), 100)
    /\ Decoded(0, ID_PEDALS, 1)
         => state.brakePercent = Min(Byte(call.msg, 0), 100)
    /\ Decoded(0, ID_PEDALS, 2)
         => state.handbrakePulled = Min(Byte(call.msg, 1), 100)
    /\ Decoded(0, ID_PEDALS, 3)
         => state.clutchPercent = Min(Byte(call.msg, 2), 100)

\* A Custom pedals frame with the bytes 203, 50, 129 has been decoded:
\* brake and clutch are stored as 100, the handbrake as 50.
C16_Witness ==
    /\ Decoded(0, ID_PEDALS, 3)
    /\ Byte(call.msg, 0) > 100
    /\ Byte(call.msg, 1) < 100
    /\ Byte(call.msg, 2) > 100
    /\ state.brakePercent = 100
    /\ state.handbrakePulled = 50
    /\ state.clutchPercent = 100

---------------------------------------------------------------------------
(* C17 *)

\* C17: a frame whose identifier the active protocol does not list, whether
\* another protocol lists it or none does, leaves every field of the
\* vehicle state as the invocation found it; the router counts it as a
\* processed frame and returns true, and the link status stays RUNNING
\* with no error message.
C17_UnknownIdIgnored ==
    (DecodedCall /\ call.msg.identifier \notin ProtocolIds(CAN_PROTOCOL))
    => /\ state = call.before
       /\ call.ret
       /\ canBusStatus = "RUNNING"
       /\ canErrorMessage = ""

\* The Link build has been handed the Custom rpm frame, which the Custom
\* table would decode as 13003 rpm: the vehicle state is untouched.
C17_Witness ==
    /\ Decoded(1, ID_RPM, 8)
    /\ processFrameCustom(call.msg, call.before) # call.before
    /\ state = call.before
    /\ call.ret

---------------------------------------------------------------------------
(* C18 *)

\* The sub-fields of each recognised frame: the identifier, the index of
\* the last msg.data byte the extraction reads, and the VehicleState fields
\* it assigns. Identifiers a table lists without a sub-field have no rule.
ByteRules(protocol) ==
    IF protocol = 0 THEN
      { [id |-> ID_THROTTLE, last |-> 0, fields |-> {"throttlePercent"}],
        [id |-> ID_PEDALS, last |-> 0, fields |-> {"brakePercent"}],
        [id |-> ID_PEDALS, last |-> 1, fields |-> {"handbrakePulled"}],
        [id |-> ID_PEDALS, last |-> 2, fields |-> {"clutchPercent"}],
        [id |-> ID_RPM, last |-> 1, fields |-> {"rpm", "engineRunning"}],
        [id |-> ID_COOLANT, last |-> 1, fields |-> {"coolant10x"}],
        [id |-> ID_OIL_PRESSURE, last |-> 1, fields |-> {"oilPressure10kPa"}],
        [id |-> ID_FLAGS, last |-> 0, fields |-> {"revLimiter", "alsActive"}],
        [id |-> ID_IGNITION, last |-> 0, fields |-> {"ignitionOn"}] }
    ELSE IF protocol = 1 THEN
      { [id |-> ID_RPM_TPS, last |-> 3, fields |-> {"rpm", "engineRunning"}],
        [id |-> ID_RPM_TPS, last |-> 5, fields |-> {"throttlePercent"}],
        [id |-> ID_FUEL_IGN, last |-> 1, fields |-> {"fuelPressure10kPa"}],
        [id |-> ID_FUEL_IGN, last |-> 3, fields |-> {"ignitionTiming10x"}],
        [id |-> ID_PRESSURES, last |-> 5, fields |-> {"lambda100x"}],
        [id |-> ID_TEMPERATURES, last |-> 1, fields |-> {"coolant10x"}],
        [id |-> ID_TEMPERATURES, last |-> 3, fields |-> {"airTemp10x"}],
        [id |-> ID_VOLTAGE_FLAGS, last |-> 1,
         fields |-> {"batteryVoltage100x"}],
        [id |-> ID_VOLTAGE_FLAGS, last |-> 2,
         fields |-> {"revLimiter", "launchControl", "flatShift",
                     "ignitionOn"}],
        [id |-> ID_GEAR_OIL, last |-> 0, fields |-> {"gear"}],
        [id |-> ID_GEAR_OIL, last |-> 3, fields |-> {"oilPressure10kPa"}],
        [id |-> ID_VEHICLE_SPEED, last |-> 1, fields |-> {"vehicleSpeed10x"}] }
    ELSE
      { [id |-> ID_ENGINE_DATA_1, last |-> 1,
         fields |-> {"rpm", "engineRunning"}],
        [id |-> ID_ENGINE_DATA_1, last |-> 3, fields |-> {"throttlePercent"}],
        [id |-> ID_ENGINE_DATA_1, last |-> 5, fields |-> {"coolant10x"}],
        [id |-> ID_ENGINE_DATA_1, last |-> 7, fields |-> {"airTemp10x"}],
        [id |-> ID_ENGINE_DATA_2, last |-> 3,
         fields |-> {"batteryVoltage100x"}],
        [id |-> ID_ENGINE_DATA_2, last |-> 5,
         fields |-> {"fuelPressure10kPa"}],
        [id |-> ID_ENGINE_DATA_2, last |-> 7, fields |-> {"oilPressure10kPa"}],
        [id |-> ID_ENGINE_DATA_3, last |-> 1, fields |-> {"lambda100x"}],
        [id |-> ID_ENGINE_DATA_3, last |-> 3,
         fields |-> {"ignitionTiming10x"}],
        [id |-> ID_VEHICLE_DATA_1, last |-> 1,
         fields |-> {"vehicleSpeed10x"}],
        [id |-> ID_VEHICLE_DATA_1, last |-> 2, fields |-> {"gear"}],
        [id |-> ID_VEHICLE_DATA_1, last |-> 3,
         fields |-> {"launchControl", "flatShift"}],
        [id |-> ID_FLAGS_WARNINGS, last |-> 0,
         fields |-> {"revLimiter", "ignitionOn"}] }

\* The fields of the sub-fields of frame msg whose bytes all lie within
\* its first data_length_code bytes.
CoveredFields(protocol, msg) ==
    UNION { r.fields : r \in { q \in ByteRules(protocol) :
                                  /\ q.id = msg.identifier
                                  /\ q.last < msg.data_length_code } }

\* C18: after a frame of a listed identifier and length L, every field of
\* a sub-field whose bytes lie within the first L bytes holds what the full
\* frame would have stored, and every other field of the vehicle state
\* holds what it held before the frame.
C18_LengthGating ==
    (DecodedCall /\ call.msg.identifier \in ProtocolIds(CAN_PROTOCOL))
    => LET full == Decode(CAN_PROTOCOL,
                          [call.msg EXCEPT !.data_length_code = 8],
                          call.before)
           covered == CoveredFields(CAN_PROTOCOL, call.msg)
       IN \A f \in DOMAIN state :
              state[f] = IF f \in covered THEN full[f] ELSE call.before[f]

\* A Link rpm/tps frame of length 5 has stored its rpm and left the
\* throttle, which the full frame would have changed, as it was.
C18_Witness ==
    /\ Decoded(1, ID_RPM_TPS, 5)
    /\ call.msg.data_length_code = 5
    /\ state.rpm # call.before.rpm
    /\ state.throttlePercent = call.before.throttlePercent
    /\ Decode(1, [call.msg EXCEPT !.data_length_code = 8],
              call.before).throttlePercent # call.before.throttlePercent

---------------------------------------------------------------------------
(* C19 *)

\* The frame log entry processFrame wrote last.
NewestLogEntry == frameLog[(frameLogIndex - 1) % FRAME_LOG_SIZE(frameLog)]

\* C19: processing a frame whose data_length_code exceeds 8 leaves the
\* vehicle state the same frame with length 8 would leave, formatFrame
\* reads no msg.data byte at index 8 or above, and the length stored in
\* the frame log is at most 8.
C19_LongFrameTreatedAsEight ==
    (DecodedCall /\ call.msg.data_length_code > 8)
    => /\ state = Decode(CAN_PROTOCOL,
                         [call.msg EXCEPT !.data_length_code = 8],
                         call.before)
       /\ call.formatReads <= 8
       /\ NewestLogEntry.message.data_length_code <= 8

\* The part of C19 about the vehicle state alone: the handlers only test
\* data_length_code >= k with k <= 8 and read msg.data[0..7].
C19_LongFrameDecodedAsEight ==
    (DecodedCall /\ call.msg.data_length_code > 8)
    => state = Decode(CAN_PROTOCOL,
                      [call.msg EXCEPT !.data_length_code = 8],
                      call.before)

\* A frame of length 9 has been processed: formatFrame read nine bytes of
\* the eight msg.data holds and the log entry carries the length 9.
C19_LongFrameWitness ==
    /\ DecodedCall
    /\ call.msg.data_length_code = 9
    /\ call.formatReads = 9
    /\ NewestLogEntry.message.data_length_code = 9

---------------------------------------------------------------------------
(* C20 *)

\* C20: a Custom rpm, coolant or oil pressure frame whose 16-bit value is
\* above the maximum reasonable value (main.cpp's MAX_REASONABLE_RPM,
\* MAX_REASONABLE_COOLANT, MAX_REASONABLE_OIL_PRESSURE) is dropped: the
\* field keeps the value it held before the frame.
C20_InvalidValueDropped ==
    /\ (Decoded(0, ID_RPM, 2) /\ U16(call.msg, 0) > MAX_REASONABLE_RPM)
         => state.rpm = call.before.rpm
    /\ (Decoded(0, ID_COOLANT, 2) /\ U16(call.msg, 0) > MAX_REASONABLE_COOLANT)
         => state.coolant10x = call.before.coolant10x
    /\ (Decoded(0, ID_OIL_PRESSURE, 2)
          /\ U16(call.msg, 0) > MAX_REASONABLE_OIL_PRESSURE)
         => state.oilPressure10kPa = call.before.oilPressure10kPa

\* The modular firmware has stored an rpm above the maximum reasonable
\* value.
C20_InvalidRpmStored ==
    /\ Decoded(0, ID_RPM, 2)
    /\ U16(call.msg, 0) > MAX_REASONABLE_RPM
    /\ state.rpm = U16(call.msg, 0)
    /\ state.engineRunning

\* C20 in main.cpp: rpm, coolant temperature and oil pressure never hold a
\* value above their maximum, the rpm is 0 or the value of a frame that
\* was received, and every rpm frame received so far either passed the
\* range check or was counted as invalid.
C20_MainDropsInvalid ==
    /\ state.rpm <= MAX_REASONABLE_RPM
    /\ state.coolant10x <= MAX_REASONABLE_COOLANT
    /\ state.oilPressure10kPa <= MAX_REASONABLE_OIL_PRESSURE
    /\ state.rpm \in {0} \cup { U16(twai.received[i].message, 0) :
                                  i \in 1..Len(twai.received) }
    /\ validationStats.invalidRpmCount =
           Cardinality({ i \in 1..Len(twai.received) :
                           /\ twai.received[i].message.identifier = Main_ID_RPM
                           /\ twai.received[i].message.data_length_code >= 2
                           /\ U16(twai.received[i].message, 0)
                                  > MAX_REASONABLE_RPM })

\* main.cpp received 3000 rpm and then 13000 rpm: the second frame was
\* counted as invalid and the rpm is still 3000.
C20_MainWitness ==
    /\ Len(twai.received) = 2
    /\ U16(twai.received[1].message, 0) = 3000
    /\ U16(twai.received[2].message, 0) = 13000
    /\ validationStats.invalidRpmCount = 1
    /\ state.rpm = 3000

---------------------------------------------------------------------------
(* C21 *)

\* C21: decoding is idempotent. Decoding the frame just decoded once more
\* leaves the vehicle state as it is, and for every frame the transport
\* can deliver, decoding it twice from the current vehicle state gives
\* what decoding it once gives.
C21_DecodeIdempotent ==
    /\ DecodedCall => Decode(CAN_PROTOCOL, call.msg, state) = state
    /\ \A msg \in DecodeFrames(CAN_PROTOCOL) :
           LET once == Decode(CAN_PROTOCOL, msg, state)
           IN Decode(CAN_PROTOCOL, msg, once) = once

\* A frame has been decoded and has changed the vehicle state; decoding it
\* again changes nothing more.
C21_Witness ==
    /\ DecodedCall
    /\ state # call.before
    /\ Decode(CAN_PROTOCOL, call.msg, call.before) = state
    /\ Decode(CAN_PROTOCOL, call.msg, state) = state

---------------------------------------------------------------------------
(* C22 *)

\* C22: under the Custom protocol an rpm frame (0x102) of length 2 or more
\* sets rpm to byte 0 + 256 * byte 1 and engineRunning to rpm > 300; the
\* bytes E8 03 give rpm 1000 with the engine running, and rpm 300 gives
\* the engine not running.
C22_CustomRpm ==
    Decoded(0, 258, 2)
    => /\ state.rpm = call.msg.data[1] + 256 * call.msg.data[2]
       /\ state.engineRunning = (state.rpm > 300)
       /\ (call.msg.data[1] = 232 /\ call.msg.data[2] = 3)
            => (state.rpm = 1000 /\ state.engineRunning)
       /\ (call.msg.data[1] = 44 /\ call.msg.data[2] = 1)
            => (state.rpm = 300 /\ ~state.engineRunning)

\* The Custom rpm frame with the bytes 2C 01 has been decoded: 300 rpm,
\* engine not running.
C22_Witness ==
    /\ Decoded(0, ID_RPM, 2)
    /\ call.msg.data[1] = 44
    /\ call.msg.data[2] = 1
    /\ state.rpm = 300
    /\ ~state.engineRunning

\* The Custom rpm frame with the bytes E8 03 has been decoded.
C22_RoundTripWitness ==
    /\ Decoded(0, ID_RPM, 2)
    /\ call.msg.data[1] = 232
    /\ call.msg.data[2] = 3
    /\ state.rpm = 1000
    /\ state.engineRunning

---------------------------------------------------------------------------
(* C23 *)

\* C23: under LinkGenericDashboard the rpm/tps frame (0x5F0) of length 4
\* or more sets rpm to the 32-bit little-endian value of bytes 0-3,
\* saturated at 65535, and of length 6 or more sets the throttle to
\* min(tps div 10, 100) with tps the 16-bit little-endian value of bytes
\* 4-5; E8 03 00 00 64 00 00 00 gives rpm 1000 and throttle 10.
C23_LinkRpmTps ==
    /\ Decoded(1, 1520, 4)
         => state.rpm =
                IF call.msg.data[3] # 0 \/ call.msg.data[4] # 0
                THEN 65535
                ELSE call.msg.data[1] + 256 * call.msg.data[2]
    /\ Decoded(1, 1520, 6)
         => state.throttlePercent =
                Min((call.msg.data[5] + 256 * call.msg.data[6]) \div 10, 100)
    /\ (Decoded(1, 1520, 6)
          /\ call.msg.data = <<232, 3, 0, 0, 100, 0, 0, 0>>)
         => (state.rpm = 1000 /\ state.throttlePercent = 10)

\* The frame E8 03 00 00 64 00 00 00 has been decoded by the Link build.
C23_Witness ==
    /\ Decoded(1, ID_RPM_TPS, 8)
    /\ call.msg.data = PlainData
    /\ state.rpm = 1000
    /\ state.throttlePercent = 10
    /\ state.engineRunning

\* A 32-bit rpm above 65535 and a throttle above 100.0 % have been decoded:
\* the rpm is stored as 65535 and the throttle as 100.
C23_SaturationWitness ==
    /\ Decoded(1, ID_RPM_TPS, 6)
    /\ call.msg.data[4] # 0
    /\ state.rpm = 65535
    /\ call.msg.data[5] + 256 * call.msg.data[6] > 1000
    /\ state.throttlePercent = 100

---------------------------------------------------------------------------
(* C24 *)

\* C24: under LinkGenericDashboard a raw 16-bit fuel or oil pressure is
\* stored as raw div 100; under LinkGenericDashboard2 the raw 16-bit fuel
\* or oil pressure is stored as it is.
C24_PressureAsymmetry ==
    /\ Decoded(1, ID_FUEL_IGN, 2)
         => state.fuelPressure10kPa =
                (call.msg.data[1] + 256 * call.msg.data[2]) \div 100
    /\ Decoded(1, ID_GEAR_OIL, 4)
         => state.oilPressure10kPa =
                (call.msg.data[3] + 256 * call.msg.data[4]) \div 100
    /\ Decoded(2, ID_ENGINE_DATA_2, 6)
         => state.fuelPressure10kPa =
                call.msg.data[5] + 256 * call.msg.data[6]
    /\ Decoded(2, ID_ENGINE_DATA_2, 8)
         => state.oilPressure10kPa =
                call.msg.data[7] + 256 * call.msg.data[8]

\* The Link build has decoded the raw fuel pressure 13003 as 130.
C24_Witness ==
    /\ Decoded(1, ID_FUEL_IGN, 2)
    /\ call.msg.data[1] + 256 * call.msg.data[2] = 13003
    /\ state.fuelPressure10kPa = 130

\* The Link2 build has decoded the raw fuel pressure 1500 as 1500 and the
\* raw oil pressure 65411 as 65411.
C24_Link2Witness ==
    /\ Decoded(2, ID_ENGINE_DATA_2, 8)
    /\ state.fuelPressure10kPa = 1500
    /\ state.oilPressure10kPa = 65411

---------------------------------------------------------------------------
(* C25 *)

\* The ignition timing bytes of the frame decoded last, assembled
\* low byte first: bytes 2-3 of the Link fuel/ignition frame and of the
\* Link2 engine data 3 frame.
TimingRaw == call.msg.data[3] + 256 * call.msg.data[4]

\* The last frame decoded carried an ignition timing.
TimingDecoded ==
    \/ Decoded(1, ID_FUEL_IGN, 4)
    \/ Decoded(2, ID_ENGINE_DATA_3, 4)

\* C25: the ignition timing is the little-endian 16-bit value of its two
\* bytes read as two's complement: 0x8000..0xFFFF give the value - 65536
\* (FF FF gives -1), 0..0x7FFF give the value itself.
C25_TimingTwosComplement ==
    TimingDecoded
    => /\ TimingRaw >= 32768
            => state.ignitionTiming10x = TimingRaw - 65536
       /\ TimingRaw <= 32767 => state.ignitionTiming10x = TimingRaw
       /\ (call.msg.data[3] = 255 /\ call.msg.data[4] = 255)
            => state.ignitionTiming10x = -1
       /\ state.ignitionTiming10x \in -32768..32767

\* The timing bytes FF FF have been decoded as -1.
C25_Witness ==
    /\ TimingDecoded
    /\ call.msg.data[3] = 255
    /\ call.msg.data[4] = 255
    /\ state.ignitionTiming10x = -1

\* The timing bytes 00 80 have been decoded as -32768 by the Link2 build.
C25_MostNegativeWitness ==
    /\ Decoded(2, ID_ENGINE_DATA_3, 4)
    /\ TimingRaw = 32768
    /\ state.ignitionTiming10x = -32768

\* The timing bytes FF 7F have been decoded as 32767 by the Link build.
C25_MostPositiveWitness ==
    /\ Decoded(1, ID_FUEL_IGN, 4)
    /\ TimingRaw = 32767
    /\ state.ignitionTiming10x = 32767

---------------------------------------------------------------------------
(* C26 *)

\* The last handler was a processSerialCanBridge call that found an empty
\* serialBuffer and read one line of the given kind.
BridgeCall(kinds) ==
    /\ call.op = "processSerialCanBridge"
    /\ call.bufferBefore = <<>>
    /\ call.sent.kind \in kinds

\* C26: a line CAN:ID:LEN:DATA with a hex ID, a length digit LEN in 0..8
\* and k <= LEN data bytes is parsed into the frame with that identifier,
\* the length LEN, the k bytes supplied and zeros from k up to LEN, and the
\* frame is the one handed to processFrame and logged. CAN:102:2:E803
\* gives id 0x102, length 2, data E8 03; CAN:102:2:E8 gives data E8 00.
C26_WellFormedLineParsed ==
    BridgeCall({"frame"})
    => /\ call.frames = 1
       /\ Len(call.lines) = 1
       /\ NewestLogEntry.message = call.lines[1].msg
       /\ LET msg == call.lines[1].msg
              sent == call.sent
          IN /\ msg.identifier = sent.id.value
             /\ msg.data_length_code = sent.len
             /\ \A i \in 1..sent.len :
                    msg.data[i] = IF i <= sent.k THEN SerialBytes[i].value
                                  ELSE 0
             /\ (sent.id.value = 258 /\ sent.len = 2 /\ sent.k = 2)
                  => (msg.data[1] = 232 /\ msg.data[2] = 3)
             /\ (sent.id.value = 258 /\ sent.len = 2 /\ sent.k = 1)
                  => (msg.data[1] = 232 /\ msg.data[2] = 0)

\* The line CAN:102:2:E8 has been parsed while the stack held AA bytes:
\* data[1] is zero-filled, the bytes beyond the length are what the stack
\* held.
C26_Witness ==
    /\ BridgeCall({"frame"})
    /\ call.sent.chars =
           <<"C", "A", "N", ":", "1", "0", "2", ":", "2", ":", "E", "8", "\n">>
    /\ call.frames = 1
    /\ NewestLogEntry.message.identifier = 258
    /\ NewestLogEntry.message.data_length_code = 2
    /\ NewestLogEntry.message.data[1] = 232
    /\ NewestLogEntry.message.data[2] = 0
    /\ NewestLogEntry.message.data[3] = 170

\* The line CAN:102:2:E803 has been parsed.
C26_FullLineWitness ==
    /\ BridgeCall({"frame"})
    /\ call.sent.chars =
           <<"C", "A", "N", ":", "1", "0", "2", ":", "2", ":",
             "E", "8", "0", "3", "\n">>
    /\ NewestLogEntry.message.identifier = 258
    /\ NewestLogEntry.message.data_length_code = 2
    /\ NewestLogEntry.message.data[1] = 232
    /\ NewestLogEntry.message.data[2] = 3

\* The line CAN:102:2:E803 arrived in two pieces, CAN:102:2:E8 during one
\* call and 03 with the newline during the next, and has been parsed.
C26_SplitLineWitness ==
    /\ call.op = "processSerialCanBridge"
    /\ call.bufferBefore =
           <<"C", "A", "N", ":", "1", "0", "2", ":", "2", ":", "E", "8">>
    /\ call.sent.kind = "rest"
    /\ call.frames = 1
    /\ NewestLogEntry.message.identifier = 258
    /\ NewestLogEntry.message.data_length_code = 2
    /\ NewestLogEntry.message.data[1] = 232
    /\ NewestLogEntry.message.data[2] = 3
    /\ serialBuffer = <<>>

---------------------------------------------------------------------------
(* C27 *)

---------------------------------------------------------------------------
(* C28 *)

\* The line starts with the prefix CAN: (strncmp(line, "CAN:", 4) == 0).
StartsWithPrefix(text) == Len(text) >= 4 /\ SubSeq(text, 1, 4) = CanPrefix

\* C28: a completed line that does not start with the prefix is ignored
\* without a parse-error report, and a line that starts with the prefix
\* but fails to parse is reported as a parse error.
C28_ReportOnlyPrefixedLines ==
    call.op = "processSerialCanBridge"
    => \A i \in 1..Len(call.lines) :
           LET l == call.lines[i]
           IN /\ ~StartsWithPrefix(l.text)
                   => (l.msg = NoFrame /\ l.report = "")
              /\ (StartsWithPrefix(l.text) /\ l.msg = NoFrame)
                   => l.report = "ERR:PARSE:"

\* What the code does: a rejected line is reported exactly if it is longer
\* than four characters, whatever it starts with; an accepted line is
\* answered with OK:. Every line of the input is dealt with in turn.
C28_ReportLongRejectedLines ==
    call.op = "processSerialCanBridge"
    => \A i \in 1..Len(call.lines) :
           LET l == call.lines[i]
           IN l.report = IF l.msg # NoFrame THEN "OK:"
                         ELSE IF Len(l.text) > 4 THEN "ERR:PARSE:"
                         ELSE ""

\* The line HELLO, which does not start with the prefix, has been reported
\* as a parse error.
C28_ForeignLineReported ==
    /\ call.op = "processSerialCanBridge"
    /\ Len(call.lines) = 1
    /\ call.lines[1].text = <<"H", "E", "L", "L", "O">>
    /\ call.lines[1].report = "ERR:PARSE:"

\* The line CAN:, which starts with the prefix and does not parse, has not
\* been reported.
C28_PrefixLineNotReported ==
    /\ call.op = "processSerialCanBridge"
    /\ Len(call.lines) = 1
    /\ call.lines[1].text = CanPrefix
    /\ call.lines[1].msg = NoFrame
    /\ call.lines[1].report = ""

\* A rejected line has been followed by an accepted one in the same call.
C28_ContinuesWitness ==
    /\ call.op = "processSerialCanBridge"
    /\ Len(call.lines) = 2
    /\ call.lines[1].msg = NoFrame
    /\ call.lines[2].msg # NoFrame
    /\ call.frames = 1

---------------------------------------------------------------------------
(* C29 *)

\* C29: one call of processSerialCanBridge hands at most a fixed number of
\* frames to processFrame, the router's MAX_MESSAGES_PER_LOOP, however
\* many lines arrive while it runs.
C29_BridgeFramesBounded ==
    call.op = "processSerialCanBridge"
    => call.frames <= MAX_MESSAGES_PER_LOOP

\* What the code does: every well-formed line that arrives during the call
\* is decoded in that call.
C29_BridgeDrainsAllInput ==
    (call.op = "processSerialCanBridge" /\ call.sent.kind = "burst"
       /\ call.bufferBefore = <<>>)
    => (call.frames = call.sent.k /\ serialBuffer = <<>>)

\* MaxBurst lines arrived during one call and all were decoded in it.
C29_BurstWitness ==
    /\ call.op = "processSerialCanBridge"
    /\ call.sent.kind = "burst"
    /\ call.frames = MaxBurst
    /\ call.frames > MAX_MESSAGES_PER_LOOP

---------------------------------------------------------------------------
(* C30 *)

\* C30: two consecutive transport status queries of the health monitor are
\* at least CAN_HEALTH_CHECK_INTERVAL apart: a monitor call of main.cpp
\* that comes less than the interval after the latest query makes no query
\* and leaves the status and its message alone.
C30_MainPollInterval ==
    [][(MainMonitorStep /\ twai.lastQuery # NoQuery
          /\ Elapsed(now, twai.lastQuery) < Units(CAN_HEALTH_CHECK_INTERVAL))
       => /\ ~call'.queried
          /\ twai'.lastQuery = twai.lastQuery
          /\ UNCHANGED <<canBusStatus, canErrorMessage>>]_vars

\* C30 in can_handler.cpp: a monitor call queries the transport only if
\* the interval has passed since lastCanHealthCheck, the uptime of the
\* latest query (0 at boot); a call inside the interval makes no query and
\* changes nothing but the record of the call.
C30_ModularPollInterval ==
    [][MonitorStep
       => /\ call'.queried
               => /\ Elapsed(now, lastCanHealthCheck)
                         >= Units(CAN_HEALTH_CHECK_INTERVAL)
                  /\ lastCanHealthCheck' = now
          /\ Elapsed(now, lastCanHealthCheck) < Units(CAN_HEALTH_CHECK_INTERVAL)
               => /\ ~call'.queried
                  /\ UNCHANGED <<pc, canBusStatus, canErrorMessage,
                                 lastCanHealthCheck, canRestartAttemptTime,
                                 lastCanMessageTime, state, frameLog,
                                 frameLogIndex, twai>>]_vars

\* can_handler.cpp has been called inside the interval after a query, in
\* status RUNNING, and has not queried.
C30_ModularWitness ==
    /\ call.op = "monitorCanHealth"
    /\ call.pre = "RUNNING"
    /\ ~call.queried
    /\ lastCanHealthCheck # 0
    /\ Elapsed(now, lastCanHealthCheck) < Units(CAN_HEALTH_CHECK_INTERVAL)

---------------------------------------------------------------------------
(* C31 *)

\* C31 (as claimed): with demo mode off, a step of the running device
\* changes a VehicleState field only if it is a router invocation, which
\* is what calls the decoder multiplexer processFrame; the configuration
\* handler, the report, the renderer and the health monitor change none.
C31_DecoderOnlyWriter ==
    [][state' # state => call'.op = "receiveAndProcessCan"]_vars

\* What the code does: besides the router, the configuration handler
\* writes state.rpmRedline, on a POST with an accepted redline, and
\* nothing else of the vehicle state is written by anything else.
C31_RedlineWrittenByConfig ==
    [][(state' # state /\ call'.op # "receiveAndProcessCan")
       => /\ call'.op = "handleApiConfig"
          /\ call'.method = "HTTP_POST"
          /\ call'.response = 200
          /\ state' = [state EXCEPT !.rpmRedline = userConfig'.rpmRedline]]_vars

\* The configuration handler has changed the redline of a vehicle state
\* the decoder had written before.
C31_RedlineWitness ==
    /\ call.op = "handleApiConfig"
    /\ state.rpmRedline = 12000
    /\ state.rpm = 1000
    /\ canBusStatus = "RUNNING"

---------------------------------------------------------------------------
(* C32 *)

\* C32: the health message canErrorMessage changes only in a step in which
\* canBusStatus changes value; no step changes the message and leaves the
\* status as it was.
C32_MessageChangesWithStatus ==
    [][canErrorMessage' # canErrorMessage
       => canBusStatus' # canBusStatus]_vars

\* The message has changed twice, each time together with the status: to
\* the bus-off text and then to the recovery text.
C32_Witness ==
    /\ pc = "loop"
    /\ twai.recoveryCalls = 1
    /\ canBusStatus = "RECOVERING"
    /\ canErrorMessage = MsgRecovering

\* A recovery call has failed after the bus-off message was set: the
\* status and the message are still those of the bus-off.
C32_FailedRecoveryWitness ==
    /\ pc = "loop"
    /\ twai.recoveryCalls = 1
    /\ canBusStatus = "BUS_OFF"
    /\ canErrorMessage = MsgBusOff

---------------------------------------------------------------------------
(* C33 *)

\* C33: a router invocation, with the frames it decodes, and the passing
\* of time, however long and with or without frames, leave canBusStatus as
\* it is; the status changes only in a step of configureCan, in a
\* monitorCanHealth invocation or in attemptCanRecovery.
C33_DrainingKeepsStatus ==
    [][ /\ (RouterStep \/ now' # now) => canBusStatus' = canBusStatus
        /\ canBusStatus' # canBusStatus
           => \/ pc \in {"setup", "install", "start", "recovery"}
              \/ MonitorStep ]_vars

\* A router invocation has decoded a frame and the status is RUNNING as
\* before it.
C33_Witness ==
    /\ call.op = "receiveAndProcessCan"
    /\ call.pre = "RUNNING"
    /\ call.messagesProcessed > 0
    /\ state.rpm = 1000
    /\ canBusStatus = "RUNNING"

\* The whole modelled uptime has passed without a frame, with router
\* invocations that received nothing, and the status is still RUNNING.
C33_SilenceWitness ==
    /\ call.op = "receiveAndProcessCan"
    /\ call.receives > 0
    /\ ~call.ret
    /\ now = MaxTicks * Units(TickMs)
    /\ lastCanMessageTime = 0
    /\ canBusStatus = "RUNNING"

---------------------------------------------------------------------------
(* C34 *)

\* C34: monitorCanHealth queries the transport only while the status is
\* RUNNING; once a monitor invocation has returned with the status BUS_OFF
\* or RECOVERING, no later monitor or router invocation changes the status
\* or its message, none queries the transport, and twai_initiate_recovery
\* is not called again.
C34_BusOffAndRecoveringAbsorbing ==
    [][ /\ (MonitorStep /\ call'.queried) => canBusStatus = "RUNNING"
        /\ (pc = "loop" /\ canBusStatus \in {"BUS_OFF", "RECOVERING"})
           => /\ canBusStatus' = canBusStatus
              /\ canErrorMessage' = canErrorMessage
              /\ twai'.recoveryCalls = twai.recoveryCalls
              /\ pc' = "loop"
              /\ MonitorStep => ~call'.queried ]_vars

\* The monitor was invoked in RECOVERING with the poll interval and the
\* cooldown both elapsed since the recovery call, and did nothing.
C34_Witness ==
    /\ pc = "loop"
    /\ call.op = "monitorCanHealth"
    /\ call.pre = "RECOVERING"
    /\ ~call.queried
    /\ canBusStatus = "RECOVERING"
    /\ twai.recoveryCalls = 1
    /\ HealthCheckDue(now, lastCanHealthCheck)
    /\ RecoveryDue(now, canRestartAttemptTime)

\* The monitor was invoked in BUS_OFF, which no recovery call had followed,
\* with the poll interval and the cooldown elapsed, and did nothing.
C34_BusOffWitness ==
    /\ pc = "loop"
    /\ call.op = "monitorCanHealth"
    /\ call.pre = "BUS_OFF"
    /\ ~call.queried
    /\ canBusStatus = "BUS_OFF"
    /\ twai.recoveryCalls = 0
    /\ HealthCheckDue(now, lastCanHealthCheck)
    /\ RecoveryDue(now, canRestartAttemptTime)

\* C34 in main.cpp: monitorCanHealth queries only while the status is
\* RUNNING, and once the status is BUS_OFF no iteration of loop() changes
\* it or its message, queries the transport or calls
\* twai_initiate_recovery (main.cpp has no RECOVERING status).
C34_MainBusOffAbsorbing ==
    [][ /\ (MainMonitorStep /\ call'.queried) => canBusStatus = "RUNNING"
        /\ canBusStatus = "BUS_OFF"
           => /\ canBusStatus' = canBusStatus
              /\ canErrorMessage' = canErrorMessage
              /\ twai'.recoveryCalls = twai.recoveryCalls
              /\ MainMonitorStep => ~call'.queried ]_vars

\* loop() of main.cpp has run its monitor in BUS_OFF.
C34_MainWitness ==
    /\ pc = "drain"
    /\ call.op = "monitorCanHealth"
    /\ call.pre = "BUS_OFF"
    /\ ~call.queried
    /\ canBusStatus = "BUS_OFF"
    /\ twai.recoveryCalls = 1

---------------------------------------------------------------------------
(* C35 *)

\* C35: canRestartAttemptTime is 0 until the first recovery call and the
\* cooldown is measured from it: a bus-off that monitorCanHealth detects
\* at an uptime below CAN_RESTART_COOLDOWN is followed by no
\* twai_initiate_recovery call and the status is left at BUS_OFF.
C35_EarlyBusOffNotRecovered ==
    /\ twai.recoveryCalls = 0 => canRestartAttemptTime = 0
    /\ (/\ pc = "loop"
        /\ call.op = "monitorCanHealth"
        /\ call.queried
        /\ call.busState = "TWAI_STATE_BUS_OFF"
        /\ lastCanHealthCheck < Units(CAN_RESTART_COOLDOWN))
       => /\ twai.recoveryCalls = 0
          /\ canBusStatus = "BUS_OFF"
          /\ canErrorMessage = MsgBusOff

\* The bus-off was detected at 5000 ms of uptime; the cooldown has long
\* elapsed since and no recovery call has been made.
C35_Witness ==
    /\ pc = "loop"
    /\ call.op = "monitorCanHealth"
    /\ call.queried
    /\ call.busState = "TWAI_STATE_BUS_OFF"
    /\ lastCanHealthCheck = Units(CAN_HEALTH_CHECK_INTERVAL)
    /\ now = MaxTicks * Units(TickMs)
    /\ canBusStatus = "BUS_OFF"
    /\ twai.recoveryCalls = 0

---------------------------------------------------------------------------
(* C36 *)

\* C36: the status is RECOVERING only if the twai_initiate_recovery call
\* returned ESP_OK; after a call that failed the status and the message
\* are those of the bus-off, and canRestartAttemptTime is the time of the
\* attempt all the same.
C36_RecoveringOnlyOnSuccess ==
    /\ canBusStatus = "RECOVERING" => twai.recoveryResult = "ESP_OK"
    /\ twai.recoveryResult = "ESP_OK" => canBusStatus = "RECOVERING"
    /\ twai.recoveryResult = "ESP_FAIL"
       => /\ canBusStatus = "BUS_OFF"
          /\ canErrorMessage = MsgBusOff
    /\ twai.recoveryCalls > 0
       => /\ canRestartAttemptTime = lastCanHealthCheck
          /\ canRestartAttemptTime >= Units(CAN_RESTART_COOLDOWN)

\* The recovery call made at 10000 ms of uptime failed: BUS_OFF with its
\* message, and the attempt time stored.
C36_Witness ==
    /\ pc = "loop"
    /\ twai.recoveryCalls = 1
    /\ twai.recoveryResult = "ESP_FAIL"
    /\ canBusStatus = "BUS_OFF"
    /\ canErrorMessage = MsgBusOff
    /\ canRestartAttemptTime = Units(CAN_RESTART_COOLDOWN)
    /\ now > canRestartAttemptTime

---------------------------------------------------------------------------
(* C37 *)

\* C37: a frame the serial bridge accepts is decoded and logged whatever
\* canBusStatus is, BUS_OFF, RECOVERING and FAILED included, and the bridge
\* leaves the status alone.
C37_BridgeIgnoresStatus ==
    /\ []((call.op = "processSerialCanBridge" /\ call.sent.kind = "frame"
               /\ call.bufferBefore = <<>>)
            => /\ call.frames = 1
               /\ state = Decode(CAN_PROTOCOL, call.lines[1].msg,
                                 call.before.state)
               /\ NewestLogEntry.message = call.lines[1].msg
               /\ NewestLogEntry.timestamp = lastCanMessageTime)
    /\ [][BridgeStep => UNCHANGED <<canBusStatus, canErrorMessage>>]_vars

\* The bridge has decoded and logged a frame while the link was
\* recovering.
C37_Witness ==
    /\ call.op = "processSerialCanBridge"
    /\ canBusStatus = "RECOVERING"
    /\ call.frames = 1
    /\ state.rpm # call.before.state.rpm
    /\ NewestLogEntry.message.identifier = ID_RPM_TPS
    /\ lastCanMessageTime = now

\* The same in BUS_OFF and after a failed start.
C37_BusOffWitness ==
    /\ call.op = "processSerialCanBridge"
    /\ canBusStatus = "BUS_OFF"
    /\ call.frames = 1
    /\ state.rpm # call.before.state.rpm
    /\ NewestLogEntry.message.identifier = ID_RPM_TPS

C37_FailedWitness ==
    /\ call.op = "processSerialCanBridge"
    /\ canBusStatus = "FAILED"
    /\ call.frames = 1
    /\ state.rpm # call.before.state.rpm
    /\ NewestLogEntry.message.identifier = ID_RPM_TPS

\* The other side, in the link model: receiveAndProcessCan makes no
\* receive while the status is not RUNNING.
C37_ReceivesGated ==
    (call.op = "receiveAndProcessCan" /\ call.pre # "RUNNING")
        => call.receives = 0 /\ ~call.ret

C37_ReceivesGatedWitness ==
    /\ call.op = "receiveAndProcessCan"
    /\ call.pre = "BUS_OFF"
    /\ call.receives = 0

---------------------------------------------------------------------------
(* C38 *)

\* C38: with demo mode off, under each of the three protocols,
\* state.engineRunning is (state.rpm > 300) in every reachable state: a
\* decoder that writes rpm writes engineRunning with it, and nothing else
\* writes either field.
C38_EngineRunningFollowsRpm ==
    state.engineRunning = (state.rpm > ENGINE_RUNNING_RPM)

\* The Link2 rpm frame with 301 rpm has been decoded: the engine runs.
C38_Witness ==
    /\ Decoded(2, ID_ENGINE_DATA_1, 2)
    /\ state.rpm = 301
    /\ state.engineRunning

\* The Custom rpm frame with 300 rpm, and the Link frame whose 32-bit rpm
\* is stored as 65535.
C38_CustomStoppedWitness ==
    /\ Decoded(0, ID_RPM, 2)
    /\ state.rpm = 300
    /\ ~state.engineRunning

C38_LinkSaturatedWitness ==
    /\ Decoded(1, ID_RPM_TPS, 4)
    /\ state.rpm = 65535
    /\ state.engineRunning

---------------------------------------------------------------------------
(* C39 *)

C39_OddDigitWitness ==
    /\ BridgeCall({"excess"})
    /\ call.sent.len = 4
    /\ call.sent.k = 4
    /\ call.sent.chars[Len(call.sent.chars) - 1] = "6"
    /\ call.frames = 1
    /\ state.rpm = 65535

C39_NineBytesWitness ==
    /\ BridgeCall({"excess"})
    /\ call.sent.len = 8
    /\ call.sent.k = 8
    /\ call.sent.chars[Len(call.sent.chars) - 1] = "B"
    /\ call.frames = 1
    /\ call.lines[1].msg.data_length_code = 8


---------------------------------------------------------------------------
(* C40 *)

\* Timestamps shortly before the wraparound, and the times that have gone
\* by since: around the poll interval and around the cooldown.
WrapStamps == {UptimeModulus - 1, UptimeModulus - WrapStep}

WrapDelays ==
    {0, WrapStep,
     Units(CAN_HEALTH_CHECK_INTERVAL) - 1, Units(CAN_HEALTH_CHECK_INTERVAL),
     Units(CAN_RESTART_COOLDOWN) - 1, Units(CAN_RESTART_COOLDOWN)}

\* The time gone by since the latest query and since the latest recovery
\* attempt (since boot before the first), on the clock that does not wrap.
SinceQuery == twai.uptime - twai.queriedAt
SinceAttempt == twai.uptime - twai.attemptedAt

\* C40: both gates compare (now - last) modulo 2^32. While less than 2^32 ms
\* have gone by since the timestamp, a monitor invocation on a RUNNING link
\* queries the transport exactly when the poll interval has gone by, and an
\* invocation of attemptCanRecovery calls the driver exactly when the
\* cooldown has gone by, whether or not the uptime counter has wrapped in
\* between; and for every timestamp shortly before the wraparound either
\* gate is open exactly from the configured delay on.
C40_GatesExactAcrossWrap ==
    /\ [](\A last \in WrapStamps, d \in WrapDelays :
            LET t == (last + d) % UptimeModulus
            IN /\ HealthCheckDue(t, last)
                    <=> d >= Units(CAN_HEALTH_CHECK_INTERVAL)
               /\ RecoveryDue(t, last) <=> d >= Units(CAN_RESTART_COOLDOWN))
    /\ [][/\ (MonitorStep /\ canBusStatus = "RUNNING"
                 /\ SinceQuery < UptimeModulus)
             => (call'.queried
                    <=> SinceQuery >= Units(CAN_HEALTH_CHECK_INTERVAL))
          /\ (pc = "recovery" /\ SinceAttempt < UptimeModulus)
             => (RecoveryCallStep
                    <=> SinceAttempt >= Units(CAN_RESTART_COOLDOWN))]_vars

\* A query made after the wraparound, exactly one poll interval after the
\* query before it, which was made before the wraparound.
C40_Witness ==
    /\ call.op = "monitorCanHealth"
    /\ call.queried
    /\ lastCanHealthCheck = now
    /\ now < Units(CAN_HEALTH_CHECK_INTERVAL)
    /\ twai.uptime >= UptimeModulus
    /\ twai.queriedAt = twai.uptime

\* Half a poll interval after a query made before the wraparound, the
\* counter has wrapped and the monitor has not queried.
C40_ClosedAcrossWrapWitness ==
    /\ call.op = "monitorCanHealth"
    /\ call.pre = "RUNNING"
    /\ ~call.queried
    /\ now < lastCanHealthCheck
    /\ SinceQuery = WrapStep

\* A recovery call made after the wraparound, the only one of the boot.
C40_RecoveryAfterWrapWitness ==
    /\ twai.recoveryCalls = 1
    /\ twai.attemptedAt >= UptimeModulus
    /\ canRestartAttemptTime = twai.attemptedAt % UptimeModulus

=============================================================================
